---- MODULE Spec2Model ----
(***************************************************************************)
(* Model of the path admission control (PathValidator), the file-type      *)
(* policy (FileValidator) and the tool handlers that call them.            *)
(*                                                                         *)
(* A JavaScript string is a sequence of one-character strings, so that     *)
(* startsWith, regular-expression tests, percent-decoding and path         *)
(* normalisation are computed character by character as the code does.     *)
(* The platform is POSIX: path.sep is "/" and "\" is an ordinary character.*)
(***************************************************************************)
EXTENDS Integers, Sequences, FiniteSets, TLC

\* ------------------------------------------------------------------------
\* Bounds of the model
\* ------------------------------------------------------------------------
MaxTokens == 3
MaxCalls == 2
MaxToolCalls == 1
MaxServerCalls == 3

\* ------------------------------------------------------------------------
\* Strings
\* ------------------------------------------------------------------------
StartsWith(s, p) == Len(p) <= Len(s) /\ SubSeq(s, 1, Len(p)) = p

EndsWith(s, p) == Len(p) <= Len(s) /\ SubSeq(s, Len(s) - Len(p) + 1, Len(s)) = p

Contains(s, p) ==
  \E i \in 1..(Len(s) - Len(p) + 1) : SubSeq(s, i, i + Len(p) - 1) = p

Slice(s, n) == SubSeq(s, n + 1, Len(s))

UpperLetters ==
  <<"A", "B", "C", "D", "E", "F", "G", "H", "I", "J", "K", "L", "M",
    "N", "O", "P", "Q", "R", "S", "T", "U", "V", "W", "X", "Y", "Z">>
LowerLetters ==
  <<"a", "b", "c", "d", "e", "f", "g", "h", "i", "j", "k", "l", "m",
    "n", "o", "p", "q", "r", "s", "t", "u", "v", "w", "x", "y", "z">>

ToLowerMap == [c \in {UpperLetters[i] : i \in 1..26} |->
                 LowerLetters[CHOOSE i \in 1..26 : UpperLetters[i] = c]]

LowerChar(c) == IF c \in DOMAIN ToLowerMap THEN ToLowerMap[c] ELSE c

UpperChar(c) ==
  IF \E i \in 1..26 : LowerLetters[i] = c
  THEN UpperLetters[CHOOSE i \in 1..26 : LowerLetters[i] = c] ELSE c

\* String.prototype.toLowerCase and toUpperCase
ToLowerCase(s) == [i \in 1..Len(s) |-> LowerChar(s[i])]
ToUpperCase(s) == [i \in 1..Len(s) |-> UpperChar(s[i])]

\* A regular expression /lit/i over a literal.
ContainsCI(s, p) == Contains(ToLowerCase(s), p)

WhiteSpace == {" ", "\t", "\n", "\r"}

\* inputPath.trim().length === 0
IsBlank(s) == \A i \in 1..Len(s) : s[i] \in WhiteSpace

RECURSIVE Flatten(_)
Flatten(ss) == IF ss = <<>> THEN <<>> ELSE Head(ss) \o Flatten(Tail(ss))

\* ------------------------------------------------------------------------
\* The environment: os.homedir() and process.cwd()
\* ------------------------------------------------------------------------
HomeDir == <<"/", "h">>
Cwd == <<"/", "w">>

\* ------------------------------------------------------------------------
\* Node's path module (posix)
\* ------------------------------------------------------------------------
\* The segments of s between separators ("" segments included).
Segments(s) ==
  LET seps == {i \in 1..Len(s) : s[i] = "/"}
      n == Cardinality(seps)
      Sep(k) == IF k = 0 THEN 0
                ELSE IF k = n + 1 THEN Len(s) + 1
                ELSE CHOOSE i \in seps : Cardinality({j \in seps : j < i}) = k - 1
  IN [k \in 1..(n + 1) |-> SubSeq(s, Sep(k - 1) + 1, Sep(k) - 1)]

RECURSIVE JoinSegs(_)
JoinSegs(segs) ==
  IF segs = <<>> THEN <<>>
  ELSE IF Len(segs) = 1 THEN segs[1]
  ELSE segs[1] \o <<"/">> \o JoinSegs(Tail(segs))

DotDot == <<".", ".">>

RECURSIVE NormSegs(_, _, _)
NormSegs(segs, stack, allowAboveRoot) ==
  IF segs = <<>> THEN stack
  ELSE LET seg == Head(segs)
           rest == Tail(segs)
       IN IF seg = <<>> \/ seg = <<".">> THEN NormSegs(rest, stack, allowAboveRoot)
          ELSE IF seg = DotDot
          THEN IF stack # <<>> /\ stack[Len(stack)] # DotDot
               THEN NormSegs(rest, SubSeq(stack, 1, Len(stack) - 1), allowAboveRoot)
               ELSE IF allowAboveRoot
               THEN NormSegs(rest, Append(stack, DotDot), allowAboveRoot)
               ELSE NormSegs(rest, stack, allowAboveRoot)
          ELSE NormSegs(rest, Append(stack, seg), allowAboveRoot)

\* normalizeString: resolves "." and ".." segments and repeated separators.
normalizeString(p, allowAboveRoot) ==
  JoinSegs(NormSegs(Segments(p), <<>>, allowAboveRoot))

isAbsolute(p) == Len(p) > 0 /\ p[1] = "/"

\* path.resolve(...args): right to left until an absolute path is built,
\* the working directory last.
RECURSIVE ResolveFrom(_, _, _)
ResolveFrom(args, i, resolvedPath) ==
  IF isAbsolute(resolvedPath) THEN resolvedPath
  ELSE LET p == IF i >= 1 THEN args[i] ELSE Cwd
       IN IF Len(p) = 0 THEN ResolveFrom(args, i - 1, resolvedPath)
          ELSE ResolveFrom(args, i - 1, p \o <<"/">> \o resolvedPath)

resolve(args) ==
  <<"/">> \o normalizeString(ResolveFrom(args, Len(args), <<>>), FALSE)

\* path.normalize(p)
normalize(p) ==
  IF Len(p) = 0 THEN <<".">>
  ELSE LET abs == isAbsolute(p)
           trailingSeparator == p[Len(p)] = "/"
           n == normalizeString(p, ~abs)
       IN IF Len(n) = 0
          THEN IF abs THEN <<"/">>
               ELSE IF trailingSeparator THEN <<".", "/">> ELSE <<".">>
          ELSE LET m == IF trailingSeparator THEN n \o <<"/">> ELSE n
               IN IF abs THEN <<"/">> \o m ELSE m

\* path.join(a, b)
join(a, b) ==
  LET joined == IF Len(a) = 0 THEN b
                ELSE IF Len(b) = 0 THEN a
                ELSE a \o <<"/">> \o b
  IN normalize(joined)

\* path.dirname(p)
dirname(p) ==
  IF Len(p) = 0 THEN <<".">>
  ELSE LET idx == {i \in 2..Len(p) : p[i] = "/" /\ \E j \in (i + 1)..Len(p) : p[j] # "/"}
       IN IF idx = {}
          THEN IF p[1] = "/" THEN <<"/">> ELSE <<".">>
          ELSE LET e == CHOOSE i \in idx : \A k \in idx : k <= i
                   d == SubSeq(p, 1, e - 1)
               IN IF p[1] = "/" /\ \A j \in 1..Len(d) : d[j] = "/" THEN <<"/", "/">>
                  ELSE d


\* ------------------------------------------------------------------------
\* decodeURIComponent
\* ------------------------------------------------------------------------
HexDigits == <<"0", "1", "2", "3", "4", "5", "6", "7", "8", "9",
               "a", "b", "c", "d", "e", "f">>

IsHex(c) == \E i \in 1..16 : HexDigits[i] = LowerChar(c)

HexVal(c) == (CHOOSE i \in 1..16 : HexDigits[i] = LowerChar(c)) - 1

\* The printable ASCII characters, code 32 first (the grave accent, code 96,
\* is written by its code).
Ascii ==
  <<" ", "!", "\"", "#", "$", "%", "&", "'", "(", ")", "*", "+", ",", "-", ".", "/",
    "0", "1", "2", "3", "4", "5", "6", "7", "8", "9", ":", ";", "<", "=", ">", "?",
    "@", "A", "B", "C", "D", "E", "F", "G", "H", "I", "J", "K", "L", "M", "N", "O",
    "P", "Q", "R", "S", "T", "U", "V", "W", "X", "Y", "Z", "[", "\\", "]", "^", "_",
    "\\x96", "a", "b", "c", "d", "e", "f", "g", "h", "i", "j", "k", "l", "m", "n", "o",
    "p", "q", "r", "s", "t", "u", "v", "w", "x", "y", "z", "{", "|", "}", "~">>

\* String.fromCharCode(b) for b < 128; a control character is written by
\* its code.
Chr(b) == IF b >= 32 /\ b <= 126 THEN Ascii[b - 31] ELSE "\\x" \o ToString(b)

\* The octet of the escape %XY at position i of s, or -1 when there is no
\* well-formed escape there.
OctetAt(s, i) ==
  IF i + 2 <= Len(s) /\ s[i] = "%" /\ IsHex(s[i + 1]) /\ IsHex(s[i + 2])
  THEN 16 * HexVal(s[i + 1]) + HexVal(s[i + 2])
  ELSE -1

\* The number of octets of the UTF-8 sequence that lead octet b starts
\* (0: b cannot start a sequence).
Utf8Length(b) ==
  IF b < 128 THEN 1
  ELSE IF b >= 194 /\ b <= 223 THEN 2
  ELSE IF b >= 224 /\ b <= 239 THEN 3
  ELSE IF b >= 240 /\ b <= 244 THEN 4
  ELSE 0

\* The decoding of s from position i on, acc being the decoding of what
\* precedes: the characters up to the next escape are copied as they are.
RECURSIVE DecodeFrom(_, _, _)
DecodeFrom(s, i, acc) ==
  LET escapes == {j \in i..Len(s) : s[j] = "%"}
  IN IF escapes = {} THEN [ok |-> TRUE, val |-> acc \o SubSeq(s, i, Len(s))]
     ELSE LET at == CHOOSE j \in escapes : \A k \in escapes : j <= k
              copied == acc \o SubSeq(s, i, at - 1)
              b == OctetAt(s, at)
              n == IF b < 0 THEN 0 ELSE Utf8Length(b)
          IN IF n = 0 THEN [ok |-> FALSE, val |-> <<>>]
             ELSE IF n = 1 THEN DecodeFrom(s, at + 3, Append(copied, Chr(b)))
             ELSE IF \A k \in 1..(n - 1) :
                       LET c == OctetAt(s, at + 3 * k) IN c >= 128 /\ c <= 191
             THEN DecodeFrom(s, at + 3 * n, Append(copied, "\\u" \o ToString(b)))
             ELSE [ok |-> FALSE, val |-> <<>>]

\* decodeURIComponent(s): ok = FALSE stands for the URIError it throws.
decodeURIComponent(s) == DecodeFrom(s, 1, <<>>)

\* ------------------------------------------------------------------------
\* Security levels and the validator's construction
\* ------------------------------------------------------------------------
STRICT == "strict"
MODERATE == "moderate"
PERMISSIVE == "permissive"
SecurityLevel == {STRICT, MODERATE, PERMISSIVE}

\* Mutant: a lone "~" is not expanded.
resolveAbsolutePath_NoLoneTilde(inputPath) ==
  IF StartsWith(inputPath, <<"~", "/">>) THEN resolve(<<HomeDir, Slice(inputPath, 2)>>)
  ELSE IF ~isAbsolute(inputPath) THEN resolve(<<HomeDir, inputPath>>)
  ELSE resolve(<<inputPath>>)

\* PathValidator.resolveAbsolutePath
resolveAbsolutePath(inputPath) ==
  IF StartsWith(inputPath, <<"~", "/">>) THEN resolve(<<HomeDir, Slice(inputPath, 2)>>)
  ELSE IF inputPath = <<"~">> THEN HomeDir
  ELSE IF ~isAbsolute(inputPath) THEN resolve(<<HomeDir, inputPath>>)
  ELSE resolve(<<inputPath>>)

\* new PathValidator(options, securityLevel); an absent level is None.
None == "none"

PathValidator(options, securityLevel) ==
  [allowedPrefixes |-> [i \in 1..Len(options.allowedPrefixes) |->
                          resolveAbsolutePath(options.allowedPrefixes[i])],
   enableAuditLogging |-> options.enableAuditLogging,
   strictMode |-> options.strictMode,
   securityLevel |-> IF securityLevel = None THEN STRICT ELSE securityLevel]

securityLevelMapping(level) ==
  IF level = STRICT THEN [enableAuditLogging |-> TRUE, strictMode |-> TRUE]
  ELSE IF level = MODERATE THEN [enableAuditLogging |-> TRUE, strictMode |-> FALSE]
  ELSE [enableAuditLogging |-> FALSE, strictMode |-> FALSE]

\* PathValidator.createFromConfiguration
createFromConfiguration(serverConfig) ==
  LET securitySettings == securityLevelMapping(serverConfig.securityLevel)
  IN PathValidator([allowedPrefixes |-> serverConfig.allowedDirectories,
                    enableAuditLogging |-> securitySettings.enableAuditLogging,
                    strictMode |-> securitySettings.strictMode],
                   serverConfig.securityLevel)

\* PathValidator.createWithDirectories: the options follow the level, the
\* constructor is called without it.
createWithDirectories(allowedDirectories, securityLevel) ==
  LET securitySettings == securityLevelMapping(securityLevel)
  IN PathValidator([allowedPrefixes |-> allowedDirectories,
                    enableAuditLogging |-> securitySettings.enableAuditLogging,
                    strictMode |-> securitySettings.strictMode],
                   None)

\* ------------------------------------------------------------------------
\* The gates of validatePath
\* ------------------------------------------------------------------------
\* Mutant: the "..\" pattern is missing.
hasBaseTraversal_NoBackslash(inputPath) ==
  \/ Contains(inputPath, <<".", ".", "/">>)
  \/ Contains(inputPath, <<"/", ".", ".">>)
  \/ Contains(inputPath, <<"\\", ".", ".">>)
  \/ EndsWith(inputPath, <<".", ".">>)
  \/ inputPath = <<".", ".">>

hasBaseTraversal(inputPath) ==
  \/ Contains(inputPath, <<".", ".", "/">>)
  \/ Contains(inputPath, <<".", ".", "\\">>)
  \/ Contains(inputPath, <<"/", ".", ".">>)
  \/ Contains(inputPath, <<"\\", ".", ".">>)
  \/ EndsWith(inputPath, <<".", ".">>)
  \/ inputPath = <<".", ".">>

hasStrictTraversal(inputPath) ==
  \/ EndsWith(inputPath, <<"/", ".", ".">>)
  \/ EndsWith(inputPath, <<"\\", ".", ".">>)
  \/ Contains(inputPath, <<".", ".", ".">>)
  \/ EndsWith(inputPath, <<".", ".", ".">>)

\* PathValidator.checkTraversalAttempts
checkTraversalAttempts(v, inputPath) ==
  IF hasBaseTraversal(inputPath) THEN TRUE
  ELSE IF v.securityLevel = STRICT THEN hasStrictTraversal(inputPath)
  ELSE FALSE

hasBaseEncoded(inputPath) ==
  \/ ContainsCI(inputPath, <<"%", "2", "e", "%", "2", "e", "%", "2", "f">>)
  \/ ContainsCI(inputPath, <<"%", "2", "e", "%", "2", "e">>)

hasStrictEncoded(inputPath) ==
  \/ ContainsCI(inputPath, <<"%", "2", "f">>)
  \/ ContainsCI(inputPath, <<"%", "5", "c">>)
  \/ ContainsCI(inputPath, <<"%", "0", "0">>)
  \/ ContainsCI(inputPath, <<"%", "2", "0">>)

\* Mutant: the decoded string is not scanned again.
decodedTraversal_NoRescan(v, inputPath) ==
  LET decodedInput == decodeURIComponent(inputPath)
  IN IF decodedInput.ok THEN FALSE ELSE v.securityLevel = STRICT

\* The decoding branch of checkEncodedPathAttacks.
decodedTraversal(v, inputPath) ==
  LET decodedInput == decodeURIComponent(inputPath)
  IN IF decodedInput.ok
     THEN decodedInput.val # inputPath /\ checkTraversalAttempts(v, decodedInput.val)
     ELSE v.securityLevel = STRICT

\* Mutant: the additional encoded patterns are tested under moderate level
\* only.
checkEncodedPathAttacks_ModerateOnly(v, inputPath) ==
  IF hasBaseEncoded(inputPath) THEN TRUE
  ELSE IF v.securityLevel = MODERATE /\ hasStrictEncoded(inputPath) THEN TRUE
  ELSE IF v.securityLevel # PERMISSIVE THEN decodedTraversal(v, inputPath)
  ELSE FALSE

\* PathValidator.checkEncodedPathAttacks
checkEncodedPathAttacks(v, inputPath) ==
  IF hasBaseEncoded(inputPath) THEN TRUE
  ELSE IF (v.securityLevel = STRICT \/ v.securityLevel = MODERATE)
          /\ hasStrictEncoded(inputPath) THEN TRUE
  ELSE IF v.securityLevel # PERMISSIVE THEN decodedTraversal(v, inputPath)
  ELSE FALSE

\* Mutant: a plain string prefix test, no separator after the prefix.
isWithinAllowedDirectories_Fuzzy(v, resolvedPath) ==
  \E i \in 1..Len(v.allowedPrefixes) :
    LET normalizedPath == normalize(resolvedPath)
        normalizedPrefix == normalize(v.allowedPrefixes[i])
    IN StartsWith(normalizedPath, normalizedPrefix)

\* PathValidator.isWithinAllowedDirectories
isWithinAllowedDirectories(v, resolvedPath) ==
  \E i \in 1..Len(v.allowedPrefixes) :
    LET normalizedPath == normalize(resolvedPath)
        normalizedPrefix == normalize(v.allowedPrefixes[i])
    IN \/ StartsWith(normalizedPath, normalizedPrefix \o <<"/">>)
       \/ normalizedPath = normalizedPrefix


\* ------------------------------------------------------------------------
\* The filesystem: a function from absolute normalized paths to nodes.
\* ------------------------------------------------------------------------
Dir == [kind |-> "dir", target |-> <<>>, size |-> 0]
File(n) == [kind |-> "file", target |-> <<>>, size |-> n]
Link(t) == [kind |-> "link", target |-> t, size |-> 0]

PathSegs(p) == NormSegs(Segments(p), <<>>, FALSE)

IsSegPrefix(a, b) == Len(a) <= Len(b) /\ SubSeq(b, 1, Len(a)) = a

Child(d, seg) == IF d = <<"/">> THEN d \o seg ELSE d \o <<"/">> \o seg

RECURSIVE RealFrom(_, _, _, _)
RealFrom(f, segs, cur, fuel) ==
  IF segs = <<>> THEN [ok |-> TRUE, val |-> cur]
  ELSE LET next == Child(cur, Head(segs))
           rest == Tail(segs)
       IN IF next \notin DOMAIN f THEN [ok |-> FALSE, val |-> <<>>]
          ELSE IF f[next].kind = "link"
          THEN IF fuel = 0 THEN [ok |-> FALSE, val |-> <<>>]
               ELSE RealFrom(f, PathSegs(f[next].target) \o rest, <<"/">>, fuel - 1)
          ELSE IF f[next].kind = "file" /\ rest # <<>> THEN [ok |-> FALSE, val |-> <<>>]
          ELSE RealFrom(f, rest, next, fuel)

\* fs.realpathSync(p): every symbolic link on p resolved; ok = FALSE when a
\* component is missing or the links loop.
realpathSync(f, p) == RealFrom(f, PathSegs(p), <<"/">>, Cardinality(DOMAIN f))

\* fs.existsSync(p) follows symbolic links.
existsSync(f, p) == realpathSync(f, p).ok

\* ------------------------------------------------------------------------
\* validatePath
\* ------------------------------------------------------------------------
\* An optional value is the empty set (undefined) or a singleton.
Undefined == {}
Some(x) == {x}

\* A value that is not a string (null, undefined, a number).
NotAString == <<"null">>

createValidationResult(isValid, resolvedPath, error, securityViolation) ==
  [isValid |-> isValid, resolvedPath |-> resolvedPath, error |-> error,
   securityViolation |-> securityViolation]

\* Mutant: unauthorized-access events are not recorded.
logSecurityEvent_OnlyTraversal(v, type, attemptedPath, resolvedPath, now) ==
  IF ~v.enableAuditLogging \/ type = "unauthorized_access" THEN <<>>
  ELSE <<[timestamp |-> now, type |-> type, attemptedPath |-> attemptedPath,
          resolvedPath |-> resolvedPath, clientInfo |-> "PathValidator"]>>

\* PathValidator.logSecurityEvent: the events the call appends.
logSecurityEvent(v, type, attemptedPath, resolvedPath, now) ==
  IF ~v.enableAuditLogging THEN <<>>
  ELSE <<[timestamp |-> now, type |-> type, attemptedPath |-> attemptedPath,
          resolvedPath |-> resolvedPath, clientInfo |-> "PathValidator"]>>

\* this.securityEvents.push(event), for the events a call logged.
pushEvents_Unshift(log, events) == events \o log

pushEvents(log, events) == log \o events

\* PathValidator.getSecurityEvents: a copy of the log.
getSecurityEvents(log) == [i \in 1..Len(log) |-> log[i]]

\* PathValidator.clearSecurityEvents: the log it leaves.
clearSecurityEvents(log) == <<>>

Return(res, events, gates, fsCalls) ==
  [res |-> res, events |-> events, gates |-> gates, fsCalls |-> fsCalls]

\* Mutant: the containment of the link itself is tested, not of its target.
symlinkEscape_LinkNotTarget(v, f, resolvedPath) ==
  /\ existsSync(f, resolvedPath)
  /\ LET realPath == realpathSync(f, resolvedPath).val
     IN realPath # resolvedPath /\ ~isWithinAllowedDirectories(v, resolvedPath)

\* Step 6 of validatePath, reached with strictMode set.
symlinkEscape(v, f, resolvedPath) ==
  /\ existsSync(f, resolvedPath)
  /\ LET realPath == realpathSync(f, resolvedPath).val
     IN realPath # resolvedPath /\ ~isWithinAllowedDirectories(v, realPath)

\* Mutant: the containment gate runs before the encoded-attack gate.
validatePath_ContainmentFirst(v, f, inputPath, now) ==
  IF inputPath = NotAString
  THEN Return(createValidationResult(FALSE, <<>>, Some("Invalid path input"), Some(FALSE)),
              <<>>, <<"sanity">>, <<>>)
  ELSE IF Len(inputPath) = 0 \/ IsBlank(inputPath)
  THEN Return(createValidationResult(FALSE, <<>>, Some("Empty path not allowed"), Some(FALSE)),
              <<>>, <<"sanity">>, <<>>)
  ELSE IF checkTraversalAttempts(v, inputPath)
  THEN Return(createValidationResult(FALSE, <<>>, Some("Path traversal attempt detected"),
                                     Some(TRUE)),
              logSecurityEvent(v, "path_traversal", inputPath, Undefined, now),
              <<"sanity", "traversal">>, <<>>)
  ELSE LET resolvedPath == resolveAbsolutePath(inputPath)
       IN IF ~isWithinAllowedDirectories(v, resolvedPath)
          THEN Return(createValidationResult(FALSE, resolvedPath,
                        Some("Path outside allowed directories"), Some(TRUE)),
                      logSecurityEvent(v, "unauthorized_access", inputPath,
                                       Some(resolvedPath), now),
                      <<"sanity", "traversal", "canonicalize", "containment">>,
                      <<>>)
          ELSE IF checkEncodedPathAttacks(v, inputPath)
          THEN Return(createValidationResult(FALSE, resolvedPath,
                        Some("Encoded path traversal attempt detected"), Some(TRUE)),
                      logSecurityEvent(v, "path_traversal", inputPath, Some(resolvedPath), now),
                      <<"sanity", "traversal", "canonicalize", "containment", "encoded">>,
                      <<>>)
          ELSE IF ~v.strictMode
          THEN Return(createValidationResult(TRUE, resolvedPath, Undefined, Undefined),
                      <<>>,
                      <<"sanity", "traversal", "canonicalize", "encoded", "containment">>,
                      <<>>)
          ELSE LET fsCalls == IF existsSync(f, resolvedPath)
                              THEN <<"existsSync", "realpathSync">>
                              ELSE <<"existsSync">>
                   gates == <<"sanity", "traversal", "canonicalize", "encoded",
                              "containment", "symlink">>
               IN IF symlinkEscape(v, f, resolvedPath)
                  THEN Return(createValidationResult(FALSE, resolvedPath,
                                Some("Symlink points outside allowed directories"),
                                Some(TRUE)),
                              logSecurityEvent(v, "unauthorized_access", inputPath,
                                Some(realpathSync(f, resolvedPath).val), now),
                              gates, fsCalls)
                  ELSE Return(createValidationResult(TRUE, resolvedPath, Undefined,
                                                     Undefined),
                              <<>>, gates, fsCalls)

\* PathValidator.validatePath: the result, the events appended, the gates
\* evaluated in order and the filesystem calls made.
validatePath(v, f, inputPath, now) ==
  IF inputPath = NotAString
  THEN Return(createValidationResult(FALSE, <<>>, Some("Invalid path input"), Some(FALSE)),
              <<>>, <<"sanity">>, <<>>)
  ELSE IF Len(inputPath) = 0 \/ IsBlank(inputPath)
  THEN Return(createValidationResult(FALSE, <<>>, Some("Empty path not allowed"), Some(FALSE)),
              <<>>, <<"sanity">>, <<>>)
  ELSE IF checkTraversalAttempts(v, inputPath)
  THEN Return(createValidationResult(FALSE, <<>>, Some("Path traversal attempt detected"),
                                     Some(TRUE)),
              logSecurityEvent(v, "path_traversal", inputPath, Undefined, now),
              <<"sanity", "traversal">>, <<>>)
  ELSE LET resolvedPath == resolveAbsolutePath(inputPath)
       IN IF checkEncodedPathAttacks(v, inputPath)
          THEN Return(createValidationResult(FALSE, resolvedPath,
                        Some("Encoded path traversal attempt detected"), Some(TRUE)),
                      logSecurityEvent(v, "path_traversal", inputPath, Some(resolvedPath), now),
                      <<"sanity", "traversal", "canonicalize", "encoded">>, <<>>)
          ELSE IF ~isWithinAllowedDirectories(v, resolvedPath)
          THEN Return(createValidationResult(FALSE, resolvedPath,
                        Some("Path outside allowed directories"), Some(TRUE)),
                      logSecurityEvent(v, "unauthorized_access", inputPath,
                                       Some(resolvedPath), now),
                      <<"sanity", "traversal", "canonicalize", "encoded", "containment">>,
                      <<>>)
          ELSE IF ~v.strictMode
          THEN Return(createValidationResult(TRUE, resolvedPath, Undefined, Undefined),
                      <<>>,
                      <<"sanity", "traversal", "canonicalize", "encoded", "containment">>,
                      <<>>)
          ELSE LET fsCalls == IF existsSync(f, resolvedPath)
                              THEN <<"existsSync", "realpathSync">>
                              ELSE <<"existsSync">>
                   gates == <<"sanity", "traversal", "canonicalize", "encoded",
                              "containment", "symlink">>
               IN IF symlinkEscape(v, f, resolvedPath)
                  THEN Return(createValidationResult(FALSE, resolvedPath,
                                Some("Symlink points outside allowed directories"),
                                Some(TRUE)),
                              logSecurityEvent(v, "unauthorized_access", inputPath,
                                Some(realpathSync(f, resolvedPath).val), now),
                              gates, fsCalls)
                  ELSE Return(createValidationResult(TRUE, resolvedPath, Undefined,
                                                     Undefined),
                              <<>>, gates, fsCalls)


\* ------------------------------------------------------------------------
\* FileValidator
\* ------------------------------------------------------------------------
\* MIME_TYPE_MAP: extension and MIME type, pairwise.
MIME_TYPE_MAP ==
  << <<<<".", "t", "x", "t">>,
      <<"t", "e", "x", "t", "/", "p", "l", "a", "i", "n">>>>,
    <<<<".", "j", "s", "o", "n">>,
      <<"a", "p", "p", "l", "i", "c", "a", "t", "i", "o", "n", "/", "j", "s", "o", "n">>>>,
    <<<<".", "j", "s">>,
      <<"a", "p", "p", "l", "i", "c", "a", "t", "i", "o", "n", "/", "j", "a", "v", "a", "s", "c", "r", "i", "p", "t">>>>,
    <<<<".", "t", "s">>,
      <<"a", "p", "p", "l", "i", "c", "a", "t", "i", "o", "n", "/", "t", "y", "p", "e", "s", "c", "r", "i", "p", "t">>>>,
    <<<<".", "p", "y">>,
      <<"t", "e", "x", "t", "/", "x", "-", "p", "y", "t", "h", "o", "n">>>>,
    <<<<".", "h", "t", "m", "l">>,
      <<"t", "e", "x", "t", "/", "h", "t", "m", "l">>>>,
    <<<<".", "c", "s", "s">>,
      <<"t", "e", "x", "t", "/", "c", "s", "s">>>>,
    <<<<".", "m", "d">>,
      <<"t", "e", "x", "t", "/", "m", "a", "r", "k", "d", "o", "w", "n">>>>,
    <<<<".", "x", "m", "l">>,
      <<"a", "p", "p", "l", "i", "c", "a", "t", "i", "o", "n", "/", "x", "m", "l">>>>,
    <<<<".", "c", "s", "v">>,
      <<"t", "e", "x", "t", "/", "c", "s", "v">>>>,
    <<<<".", "p", "n", "g">>,
      <<"i", "m", "a", "g", "e", "/", "p", "n", "g">>>>,
    <<<<".", "j", "p", "g">>,
      <<"i", "m", "a", "g", "e", "/", "j", "p", "e", "g">>>>,
    <<<<".", "j", "p", "e", "g">>,
      <<"i", "m", "a", "g", "e", "/", "j", "p", "e", "g">>>>,
    <<<<".", "g", "i", "f">>,
      <<"i", "m", "a", "g", "e", "/", "g", "i", "f">>>>,
    <<<<".", "p", "d", "f">>,
      <<"a", "p", "p", "l", "i", "c", "a", "t", "i", "o", "n", "/", "p", "d", "f">>>>,
    <<<<".", "z", "i", "p">>,
      <<"a", "p", "p", "l", "i", "c", "a", "t", "i", "o", "n", "/", "z", "i", "p">>>>,
    <<<<".", "t", "a", "r">>,
      <<"a", "p", "p", "l", "i", "c", "a", "t", "i", "o", "n", "/", "x", "-", "t", "a", "r">>>>,
    <<<<".", "e", "x", "e">>,
      <<"a", "p", "p", "l", "i", "c", "a", "t", "i", "o", "n", "/", "x", "-", "m", "s", "d", "o", "w", "n", "l", "o", "a", "d">>>>,
    <<<<".", "b", "a", "t">>,
      <<"a", "p", "p", "l", "i", "c", "a", "t", "i", "o", "n", "/", "x", "-", "b", "a", "t">>>>,
    <<<<".", "s", "h">>,
      <<"a", "p", "p", "l", "i", "c", "a", "t", "i", "o", "n", "/", "x", "-", "s", "h">>>> >>
DefaultMimeType == <<"a", "p", "p", "l", "i", "c", "a", "t", "i", "o", "n", "/", "o", "c", "t", "e", "t", "-", "s", "t", "r", "e", "a", "m">>
DANGEROUS_EXTENSIONS ==
  {<<".", "e", "x", "e">>, <<".", "b", "a", "t">>, <<".", "c", "m", "d">>,
    <<".", "c", "o", "m">>, <<".", "p", "i", "f">>, <<".", "s", "c", "r">>,
    <<".", "v", "b", "s">>, <<".", "v", "b", "e">>, <<".", "j", "s">>,
    <<".", "j", "s", "e">>, <<".", "w", "s">>, <<".", "w", "s", "f">>,
    <<".", "w", "s", "c">>, <<".", "w", "s", "h">>, <<".", "p", "s", "1">>,
    <<".", "p", "s", "1", "x", "m", "l">>, <<".", "p", "s", "2">>,
    <<".", "p", "s", "2", "x", "m", "l">>, <<".", "p", "s", "c", "1">>,
    <<".", "p", "s", "c", "2">>, <<".", "m", "s", "h">>, <<".", "m", "s", "h", "1">>,
    <<".", "m", "s", "h", "2">>, <<".", "m", "s", "h", "x", "m", "l">>,
    <<".", "m", "s", "h", "1", "x", "m", "l">>,
    <<".", "m", "s", "h", "2", "x", "m", "l">>, <<".", "s", "c", "f">>,
    <<".", "l", "n", "k">>, <<".", "i", "n", "f">>, <<".", "r", "e", "g">>,
    <<".", "d", "l", "l">>, <<".", "c", "p", "l">>, <<".", "j", "a", "r">>,
    <<".", "a", "p", "p">>, <<".", "d", "e", "b">>, <<".", "r", "p", "m">>,
    <<".", "d", "m", "g">> }

\* path.basename(p): the last component, trailing separators ignored.
basename(p) ==
  LET segs == SelectSeq(Segments(p), LAMBDA sg : sg # <<>>)
  IN IF segs = <<>> THEN <<>> ELSE segs[Len(segs)]

\* path.extname(p): from the last "." of the last component, unless that
\* component has no "." except a leading one or is "..".
extname(p) ==
  LET b == basename(p)
      dots == {i \in 1..Len(b) : b[i] = "."}
  IN IF dots = {} \/ b = DotDot THEN <<>>
     ELSE LET startDot == CHOOSE i \in dots : \A j \in dots : j <= i
          IN IF startDot = 1 THEN <<>> ELSE SubSeq(b, startDot, Len(b))

\* FileValidator.getMimeType
getMimeType(extension) ==
  LET ext == ToLowerCase(extension)
  IN IF \E i \in 1..Len(MIME_TYPE_MAP) : MIME_TYPE_MAP[i][1] = ext
     THEN MIME_TYPE_MAP[CHOOSE i \in 1..Len(MIME_TYPE_MAP) : MIME_TYPE_MAP[i][1] = ext][2]
     ELSE DefaultMimeType

TEXT == "text"
CODE == "code"
IMAGE == "image"
DOCUMENT == "document"
ARCHIVE == "archive"
EXECUTABLE == "executable"
MEDIA == "media"
UNKNOWN == "unknown"
FileCategory == {TEXT, CODE, IMAGE, DOCUMENT, ARCHIVE, EXECUTABLE, MEDIA, UNKNOWN}

\* FileValidator.getFileCategory
getFileCategory(extension, mime) ==
  LET ext == ToLowerCase(extension)
  IN IF StartsWith(mime, <<"t", "e", "x", "t", "/">>) \/ ext \in {<<".", "t", "x", "t">>, <<".", "m", "d">>, <<".", "c", "s", "v">>} THEN TEXT
     ELSE IF \/ Contains(mime, <<"j", "a", "v", "a", "s", "c", "r", "i", "p", "t">>)
             \/ Contains(mime, <<"t", "y", "p", "e", "s", "c", "r", "i", "p", "t">>)
             \/ ext \in {<<".", "j", "s">>, <<".", "t", "s">>, <<".", "p", "y">>, <<".", "h", "t", "m", "l">>, <<".", "c", "s", "s">>}
     THEN CODE
     ELSE IF StartsWith(mime, <<"i", "m", "a", "g", "e", "/">>) THEN IMAGE
     ELSE IF \/ Contains(mime, <<"p", "d", "f">>)
             \/ Contains(mime, <<"m", "s", "w", "o", "r", "d">>)
             \/ Contains(mime, <<"e", "x", "c", "e", "l">>)
             \/ Contains(mime, <<"p", "o", "w", "e", "r", "p", "o", "i", "n", "t">>)
             \/ Contains(mime, <<"o", "f", "f", "i", "c", "e", "d", "o", "c", "u", "m", "e", "n", "t">>)
     THEN DOCUMENT
     ELSE IF \/ Contains(mime, <<"z", "i", "p">>)
             \/ Contains(mime, <<"t", "a", "r">>)
             \/ Contains(mime, <<"g", "z", "i", "p">>)
             \/ Contains(mime, <<"r", "a", "r">>)
             \/ Contains(mime, <<"7", "z">>)
             \/ ext \in {<<".", "z", "i", "p">>, <<".", "t", "a", "r">>, <<".", "g", "z">>, <<".", "r", "a", "r">>, <<".", "7", "z">>}
     THEN ARCHIVE
     ELSE IF \/ ext \in DANGEROUS_EXTENSIONS
             \/ Contains(mime, <<"e", "x", "e", "c", "u", "t", "a", "b", "l", "e">>)
             \/ Contains(mime, <<"m", "s", "d", "o", "w", "n", "l", "o", "a", "d">>)
             \/ Contains(mime, <<"x", "-", "s", "h">>)
             \/ Contains(mime, <<"x", "-", "b", "a", "t">>)
     THEN EXECUTABLE
     ELSE IF StartsWith(mime, <<"a", "u", "d", "i", "o", "/">>) \/ StartsWith(mime, <<"v", "i", "d", "e", "o", "/">>) THEN MEDIA
     ELSE UNKNOWN

\* ConfigurationManager.parseFileSize
Digits == <<"0", "1", "2", "3", "4", "5", "6", "7", "8", "9">>
IsDigit(c) == \E i \in 1..10 : Digits[i] = c
DigitVal(c) == (CHOOSE i \in 1..10 : Digits[i] = c) - 1

RECURSIVE DigitsEnd(_, _)
\* The index after the run of digits of s that starts at i.
DigitsEnd(s, i) == IF i <= Len(s) /\ IsDigit(s[i]) THEN DigitsEnd(s, i + 1) ELSE i

RECURSIVE ParseInt(_)
ParseInt(ds) ==
  IF ds = <<>> THEN 0 ELSE 10 * ParseInt(SubSeq(ds, 1, Len(ds) - 1)) + DigitVal(ds[Len(ds)])

RECURSIVE Pow10(_)
Pow10(n) == IF n = 0 THEN 1 ELSE 10 * Pow10(n - 1)

multipliers(unit) ==
  IF unit = <<"B">> THEN 1
  ELSE IF unit = <<"K", "B">> THEN 1024
  ELSE IF unit = <<"M", "B">> THEN 1024 * 1024
  ELSE IF unit = <<"G", "B">> THEN 1024 * 1024 * 1024
  ELSE 1024 * 1024 * 1024 * 1024

Units == {<<"B">>, <<"K", "B">>, <<"M", "B">>, <<"G", "B">>, <<"T", "B">>}

\* The match of /^(\d+(?:\.\d+)?)(B|KB|MB|GB|TB)$/i on size.
sizeMatch(size) ==
  LET e1 == DigitsEnd(size, 1)
      hasFraction == e1 <= Len(size) /\ size[e1] = "." /\ DigitsEnd(size, e1 + 1) > e1 + 1
      e2 == IF hasFraction THEN DigitsEnd(size, e1 + 1) ELSE e1
      unit == ToUpperCase(SubSeq(size, e2, Len(size)))
  IN [ok |-> e1 > 1 /\ unit \in Units,
      whole |-> SubSeq(size, 1, e1 - 1),
      fraction |-> IF hasFraction THEN SubSeq(size, e1 + 1, e2 - 1) ELSE <<>>,
      unit |-> unit]

\* ConfigurationManager.isValidFileSize
isValidFileSize(size) == sizeMatch(size).ok

\* ConfigurationManager.parseFileSize: ok = FALSE stands for the Error thrown.
parseFileSize(size) ==
  LET m == sizeMatch(size)
  IN IF ~m.ok THEN [ok |-> FALSE, val |-> 0]
     ELSE LET scale == Pow10(Len(m.fraction))
              value == ParseInt(m.whole) * scale + ParseInt(m.fraction)
          IN [ok |-> TRUE, val |-> (value * multipliers(m.unit)) \div scale]

\* ConfigurationManager.getMaxFileSizeBytes
getMaxFileSizeBytes(cfg) == parseFileSize(cfg.maxFileSize)

\* FileValidationOptions: every field optional.
NoOptions ==
  [checkSize |-> Undefined, checkExtension |-> Undefined, checkMimeType |-> Undefined,
   maxSize |-> Undefined, allowedExtensions |-> Undefined, blockedExtensions |-> Undefined,
   allowedMimeTypes |-> Undefined, blockedMimeTypes |-> Undefined,
   allowedCategories |-> Undefined, blockedCategories |-> Undefined]

\* options?.field || fallback, for an array field (an array is truthy).
OrElse(opt, fallback) == IF opt = Undefined THEN fallback ELSE CHOOSE x \in opt : TRUE

Includes(list, x) == \E i \in 1..Len(list) : list[i] = x

\* fs.statSync(p).size, following symbolic links.
statSize(f, p) == f[realpathSync(f, p).val].size

FileResult(isValid, error, warnings, fileInfo) ==
  [threw |-> FALSE, isValid |-> isValid, error |-> error, warnings |-> warnings,
   fileInfo |-> fileInfo]

\* validateFile left by an exception.
FileThrows ==
  [threw |-> TRUE, isValid |-> FALSE, error |-> Undefined, warnings |-> <<>>,
   fileInfo |-> Undefined]

\* The size gate of validateFile: "pass", "fail" or "throw".
sizeGate(cfg, options, fileSize) ==
  IF options.checkSize # Some(FALSE) /\ fileSize # Undefined
  THEN LET override == IF options.maxSize = Undefined THEN 0
                       ELSE CHOOSE n \in options.maxSize : TRUE
           fromConfig == getMaxFileSizeBytes(cfg)
       IN IF override # 0
          THEN IF (CHOOSE n \in fileSize : TRUE) > override THEN "fail" ELSE "pass"
          ELSE IF ~fromConfig.ok THEN "throw"
          ELSE IF (CHOOSE n \in fileSize : TRUE) > fromConfig.val THEN "fail" ELSE "pass"
  ELSE "pass"

\* Mutant: the dangerous-extension check of the strict level is left out.
extensionGate_NoDangerousCheck(cfg, options, extension) ==
  IF options.checkExtension # Some(FALSE) /\ extension # <<>>
  THEN IF Includes(OrElse(options.blockedExtensions, cfg.blockedExtensions), extension)
       THEN Some("File extension blocked")
       ELSE LET allowedExtensions == OrElse(options.allowedExtensions, cfg.allowedExtensions)
            IN IF ~Includes(allowedExtensions, <<"*">>) /\ ~Includes(allowedExtensions, extension)
               THEN Some("File extension not allowed")
               ELSE Undefined
  ELSE Undefined

\* The extension gate of validateFile: the error, Undefined when it passes.
extensionGate(cfg, options, extension) ==
  IF options.checkExtension # Some(FALSE) /\ extension # <<>>
  THEN IF Includes(OrElse(options.blockedExtensions, cfg.blockedExtensions), extension)
       THEN Some("File extension blocked")
       ELSE LET allowedExtensions == OrElse(options.allowedExtensions, cfg.allowedExtensions)
            IN IF ~Includes(allowedExtensions, <<"*">>) /\ ~Includes(allowedExtensions, extension)
               THEN Some("File extension not allowed")
               ELSE IF cfg.securityLevel = STRICT /\ extension \in DANGEROUS_EXTENSIONS
               THEN Some("Dangerous file extension blocked in strict mode")
               ELSE Undefined
  ELSE Undefined

\* The MIME type gate of validateFile.
mimeTypeGate(options, mimeType) ==
  IF options.checkMimeType # Some(FALSE) /\ mimeType # <<>>
  THEN IF Includes(OrElse(options.blockedMimeTypes, <<>>), mimeType)
       THEN Some("MIME type blocked")
       ELSE IF /\ options.allowedMimeTypes # Undefined
               /\ Len(OrElse(options.allowedMimeTypes, <<>>)) > 0
               /\ ~Includes(OrElse(options.allowedMimeTypes, <<>>), mimeType)
       THEN Some("MIME type not allowed")
       ELSE Undefined
  ELSE Undefined

\* The category gate of validateFile.
categoryGate(options, category) ==
  IF category # UNKNOWN
  THEN IF Includes(OrElse(options.blockedCategories, <<>>), category)
       THEN Some("File category blocked")
       ELSE IF /\ options.allowedCategories # Undefined
               /\ Len(OrElse(options.allowedCategories, <<>>)) > 0
               /\ ~Includes(OrElse(options.allowedCategories, <<>>), category)
       THEN Some("File category not allowed")
       ELSE Undefined
  ELSE Undefined

categoryWarnings(cfg, category) ==
  IF category # UNKNOWN /\ cfg.securityLevel = STRICT
  THEN IF category = EXECUTABLE THEN <<"Executable files may pose security risks">>
       ELSE IF category = ARCHIVE THEN <<"Archive files may contain executable content">>
       ELSE <<>>
  ELSE <<>>

\* Mutant: the MIME type gate is evaluated before the extension gate.
validateFile_MimeFirst(cfg, f, filePath, options) ==
  LET extension == ToLowerCase(extname(filePath))
      mimeType == getMimeType(extension)
      category == getFileCategory(extension, mimeType)
      fileSize == IF existsSync(f, filePath) THEN Some(statSize(f, filePath)) ELSE Undefined
      fileInfo == Some([extension |-> extension, mimeType |-> mimeType,
                        category |-> category, size |-> fileSize])
      size == sizeGate(cfg, options, fileSize)
  IN IF size = "throw" THEN FileThrows
     ELSE IF size = "fail" THEN FileResult(FALSE, Some("File too large"), <<>>, fileInfo)
     ELSE IF mimeTypeGate(options, mimeType) # Undefined
     THEN FileResult(FALSE, mimeTypeGate(options, mimeType), <<>>, fileInfo)
     ELSE IF extensionGate(cfg, options, extension) # Undefined
     THEN FileResult(FALSE, extensionGate(cfg, options, extension), <<>>, fileInfo)
     ELSE IF categoryGate(options, category) # Undefined
     THEN FileResult(FALSE, categoryGate(options, category), <<>>, fileInfo)
     ELSE FileResult(TRUE, Undefined, categoryWarnings(cfg, category), fileInfo)

\* FileValidator.validateFile
validateFile(cfg, f, filePath, options) ==
  LET extension == ToLowerCase(extname(filePath))
      mimeType == getMimeType(extension)
      category == getFileCategory(extension, mimeType)
      fileSize == IF existsSync(f, filePath) THEN Some(statSize(f, filePath)) ELSE Undefined
      fileInfo == Some([extension |-> extension, mimeType |-> mimeType,
                        category |-> category, size |-> fileSize])
      size == sizeGate(cfg, options, fileSize)
  IN IF size = "throw" THEN FileThrows
     ELSE IF size = "fail" THEN FileResult(FALSE, Some("File too large"), <<>>, fileInfo)
     ELSE IF extensionGate(cfg, options, extension) # Undefined
     THEN FileResult(FALSE, extensionGate(cfg, options, extension), <<>>, fileInfo)
     ELSE IF mimeTypeGate(options, mimeType) # Undefined
     THEN FileResult(FALSE, mimeTypeGate(options, mimeType), <<>>, fileInfo)
     ELSE IF categoryGate(options, category) # Undefined
     THEN FileResult(FALSE, categoryGate(options, category), <<>>, fileInfo)
     ELSE FileResult(TRUE, Undefined, categoryWarnings(cfg, category), fileInfo)

\* ------------------------------------------------------------------------
\* Filesystem mutations. A result with ok = FALSE stands for the Error the
\* call throws; touched lists the mutations made, in order.
\*
\* Where the code binds the result of a call to a const and goes on with it,
\* CHOOSE out \in {e : x \in {v}} : TRUE is e with x naming the value of v:
\* v is computed once, where the code computes it, before e reads it.
\* ------------------------------------------------------------------------
FsResult(ok, f, touched) == [ok |-> ok, fs |-> f, touched |-> touched]

\* One mutation: the call made and the absolute form of its path argument.
Mutation(op, p) == [op |-> op, path |-> resolve(<<p>>)]

\* fs.lstatSync(p): the node at p, a symbolic link at the last component not
\* followed.
lstatSync(f, p) ==
  LET abs == resolve(<<p>>)
  IN CHOOSE out \in
       { LET at == IF parent.ok THEN Child(parent.val, basename(abs)) ELSE <<>>
         IN IF parent.ok /\ at \in DOMAIN f
            THEN [ok |-> TRUE, path |-> at, node |-> f[at]]
            ELSE [ok |-> FALSE, path |-> <<>>, node |-> Dir]
         : parent \in {realpathSync(f, dirname(abs))} } : TRUE

\* fs.readdirSync(d): the names of the entries of directory d.
readdirSync(f, d) ==
  CHOOSE out \in
    { IF r.ok /\ f[r.val].kind = "dir"
      THEN [ok |-> TRUE,
            names |-> {basename(q) : q \in {x \in DOMAIN f : x # r.val /\ dirname(x) = r.val}}]
      ELSE [ok |-> FALSE, names |-> {}]
      : r \in {realpathSync(f, resolve(<<d>>))} } : TRUE

RECURSIVE MkdirFrom(_, _, _, _)
MkdirFrom(f, cur, segs, created) ==
  IF segs = <<>> THEN [ok |-> TRUE, fs |-> f, created |-> created]
  ELSE LET next == Child(cur, Head(segs))
       IN IF next \notin DOMAIN f
          THEN MkdirFrom(f @@ (next :> Dir), next, Tail(segs), Append(created, next))
          ELSE IF f[next].kind = "dir" THEN MkdirFrom(f, next, Tail(segs), created)
          ELSE IF f[next].kind = "link" /\ existsSync(f, next)
                  /\ f[realpathSync(f, next).val].kind = "dir"
          THEN MkdirFrom(f, realpathSync(f, next).val, Tail(segs), created)
          ELSE [ok |-> FALSE, fs |-> f, created |-> created]

\* fs.mkdirSync(p, { recursive: true }): p and its missing ancestors.
mkdirSync(f, p) ==
  CHOOSE out \in
    { IF ~m.ok THEN FsResult(FALSE, f, <<>>)
      ELSE FsResult(TRUE, m.fs, IF m.created = <<>> THEN <<>> ELSE <<Mutation("mkdir", p)>>)
      : m \in {MkdirFrom(f, <<"/">>, PathSegs(resolve(<<p>>)), <<>>)} } : TRUE

\* fs.writeFile(p, data) with data of the given size.
writeFile(f, p, size) ==
  LET abs == resolve(<<p>>)
  IN CHOOSE out \in
       { LET target == IF existsSync(f, abs) THEN realpathSync(f, abs).val
                       ELSE IF parent.ok THEN Child(parent.val, basename(abs))
                       ELSE <<>>
         IN IF ~parent.ok \/ f[parent.val].kind # "dir" THEN FsResult(FALSE, f, <<>>)
            ELSE IF target \in DOMAIN f /\ f[target].kind # "file"
            THEN FsResult(FALSE, f, <<>>)
            ELSE FsResult(TRUE, (target :> File(size)) @@ f, <<Mutation("write", p)>>)
         : parent \in {realpathSync(f, dirname(abs))} } : TRUE

\* fs.copyFileSync(src, dest)
copyFileSync(f, src, dest) ==
  CHOOSE out \in
    { IF ~from.ok \/ f[from.val].kind # "file" THEN FsResult(FALSE, f, <<>>)
      ELSE CHOOSE copied \in
             { FsResult(w.ok, w.fs, IF w.ok THEN <<Mutation("copy", dest)>> ELSE <<>>)
               : w \in {writeFile(f, dest, f[from.val].size)} } : TRUE
      : from \in {realpathSync(f, resolve(<<src>>))} } : TRUE

\* fs.unlinkSync(p)
unlinkSync(f, p) ==
  CHOOSE out \in
    { IF ~l.ok \/ l.node.kind = "dir" THEN FsResult(FALSE, f, <<>>)
      ELSE FsResult(TRUE, [q \in DOMAIN f \ {l.path} |-> f[q]], <<Mutation("unlink", p)>>)
      : l \in {lstatSync(f, p)} } : TRUE

\* fs.rmdirSync(p): an empty directory only.
rmdirSync(f, p) ==
  CHOOSE out \in
    { IF ~l.ok \/ l.node.kind # "dir" \/ readdirSync(f, l.path).names # {}
      THEN FsResult(FALSE, f, <<>>)
      ELSE FsResult(TRUE, [q \in DOMAIN f \ {l.path} |-> f[q]], <<Mutation("rmdir", p)>>)
      : l \in {lstatSync(f, p)} } : TRUE

\* ------------------------------------------------------------------------
\* The tool handlers. A handler returns the filesystem it leaves, the
\* validatePath calls it made (their events, their number, the last of
\* them), the mutations it made and its response.
\* ------------------------------------------------------------------------
ToolOutcome(f, events, made, lastCall, touched, response) ==
  [fs |-> f, events |-> events, made |-> made, last |-> lastCall, touched |-> touched,
   response |-> response]

createErrorResponse(errorType) ==
  [isError |-> TRUE, errorType |-> errorType, result |-> Undefined]

createSuccessResponse(result) ==
  [isError |-> FALSE, errorType |-> "", result |-> Some(result)]

CallRecord(p, r) ==
  [called |-> TRUE, input |-> p, res |-> r.res, gates |-> r.gates, fsCalls |-> r.fsCalls]

\* WriteFileTool.sanitizeContent: NUL removed, line endings normalised, a
\* final newline added.
NUL == "\\0"

RECURSIVE NormalizeLineEndings(_)
NormalizeLineEndings(s) ==
  IF s = <<>> THEN <<>>
  ELSE IF Len(s) >= 2 /\ s[1] = "\r" /\ s[2] = "\n"
  THEN <<"\n">> \o NormalizeLineEndings(SubSeq(s, 3, Len(s)))
  ELSE IF s[1] = "\r" THEN <<"\n">> \o NormalizeLineEndings(Tail(s))
  ELSE <<s[1]>> \o NormalizeLineEndings(Tail(s))

sanitizeContent(content) ==
  LET sanitized == NormalizeLineEndings(SelectSeq(content, LAMBDA c : c # NUL))
  IN IF Len(sanitized) > 0 /\ sanitized[Len(sanitized)] # "\n"
     THEN Append(sanitized, "\n")
     ELSE sanitized

allowedEncodings ==
  {<<"u", "t", "f", "8">>, <<"u", "t", "f", "-", "8">>, <<"a", "s", "c", "i", "i">>,
   <<"l", "a", "t", "i", "n", "1">>, <<"b", "a", "s", "e", "6", "4">>, <<"h", "e", "x">>}

\* WriteFileTool.ensureDirectoryExists
ensureDirectoryExists(f, dirPath) ==
  IF existsSync(f, dirPath) THEN FsResult(TRUE, f, <<>>) ELSE mkdirSync(f, dirPath)

\* The options write_file and read_file pass to validateFile.
WriteFileOptions ==
  [NoOptions EXCEPT !.checkSize = Some(FALSE), !.checkExtension = Some(TRUE),
                    !.checkMimeType = Some(TRUE)]

\* WriteFileTool.handler; an exception inside ends in handleError.
WriteFileTool_handler(v, cfg, f, args, now) ==
  CHOOSE out \in
    { LET filePath == r.res.resolvedPath
          Error(f1, touched, errorType) ==
            ToolOutcome(f1, r.events, 1, CallRecord(args.path, r), touched,
                        createErrorResponse(errorType))
      IN IF ~r.res.isValid
         THEN Error(f, <<>>, IF r.res.securityViolation = Some(TRUE) THEN "security"
                             ELSE "validation")
         ELSE CHOOSE sized \in
           { IF ~maxContentSize.ok THEN Error(f, <<>>, "system")
             ELSE IF Len(args.content) > maxContentSize.val THEN Error(f, <<>>, "validation")
             ELSE CHOOSE checked \in
               { IF fileValidationResult.threw THEN Error(f, <<>>, "system")
                 ELSE IF ~fileValidationResult.isValid THEN Error(f, <<>>, "validation")
                 ELSE IF args.encoding # Undefined
                         /\ \A e \in args.encoding :
                              Len(e) > 0 /\ ToLowerCase(e) \notin allowedEncodings
                 THEN Error(f, <<>>, "validation")
                 ELSE LET sanitizedContent == sanitizeContent(args.content)
                          fileExists == existsSync(f, filePath)
                      IN IF fileExists /\ ~args.overwrite THEN Error(f, <<>>, "validation")
                         ELSE CHOOSE ensured \in
                           { IF ~dirs.ok THEN Error(dirs.fs, dirs.touched, "filesystem")
                             ELSE CHOOSE done \in
                               { IF ~written.ok
                                 THEN Error(written.fs, dirs.touched, "filesystem")
                                 ELSE ToolOutcome(written.fs, r.events, 1,
                                                  CallRecord(args.path, r),
                                                  dirs.touched \o written.touched,
                                                  createSuccessResponse(
                                                    [path |-> filePath,
                                                     size |-> Len(sanitizedContent),
                                                     wasUpdate |-> fileExists]))
                                 : written \in {writeFile(dirs.fs, filePath,
                                                          Len(sanitizedContent))} } : TRUE
                             : dirs \in {IF args.createDirectories
                                         THEN ensureDirectoryExists(f, dirname(filePath))
                                         ELSE FsResult(TRUE, f, <<>>)} } : TRUE
                 : fileValidationResult \in
                     {validateFile(cfg, f, filePath, WriteFileOptions)} } : TRUE
             : maxContentSize \in {getMaxFileSizeBytes(cfg)} } : TRUE
      : r \in {validatePath(v, f, args.path, now)} } : TRUE

\* ConfirmationStrategy
NONE == "none"
PROMPT == "prompt"
DRY_RUN == "dry_run"
SAFE_MODE == "safe_mode"
ConfirmationStrategy == {NONE, PROMPT, DRY_RUN, SAFE_MODE}

\* DeleteFileTool.parseFileSize: the bytes as the fraction num / den; a string
\* that does not match /^(\d+(?:\.\d+)?)\s*(B|KB|MB|GB|TB)?$/i gives 100 MB.
DeleteFileTool_parseFileSize(sizeStr) ==
  LET e1 == DigitsEnd(sizeStr, 1)
      hasFraction == e1 <= Len(sizeStr) /\ sizeStr[e1] = "."
                     /\ DigitsEnd(sizeStr, e1 + 1) > e1 + 1
      e2 == IF hasFraction THEN DigitsEnd(sizeStr, e1 + 1) ELSE e1
      blanks == {i \in e2..(Len(sizeStr) + 1) :
                   \A j \in e2..(i - 1) : sizeStr[j] \in WhiteSpace}
      e3 == CHOOSE i \in blanks : \A j \in blanks : j <= i
      unit == ToUpperCase(SubSeq(sizeStr, e3, Len(sizeStr)))
      fraction == IF hasFraction THEN SubSeq(sizeStr, e1 + 1, e2 - 1) ELSE <<>>
      scale == Pow10(Len(fraction))
      value == ParseInt(SubSeq(sizeStr, 1, e1 - 1)) * scale + ParseInt(fraction)
  IN IF e1 > 1 /\ (unit = <<>> \/ unit \in Units)
     THEN [num |-> value * (IF unit = <<>> THEN 1 ELSE multipliers(unit)), den |-> scale]
     ELSE [num |-> 100 * 1024 * 1024, den |-> 1]

RECURSIVE SumSizes(_)
SumSizes(pathsInfo) ==
  IF pathsInfo = <<>> THEN 0 ELSE Head(pathsInfo).size + SumSizes(Tail(pathsInfo))

\* handleConfirmation with no limit on the number of items under safe_mode.
handleConfirmation_NoItemLimit(cfg, pathsInfo, options) ==
  LET totalSize == SumSizes(pathsInfo)
      hasDirectories == \E i \in 1..Len(pathsInfo) : pathsInfo[i].isDirectory
      maxFileSize == DeleteFileTool_parseFileSize(
                       IF Len(cfg.maxFileSize) = 0 THEN <<"1", "0", "0", "M", "B">>
                       ELSE cfg.maxFileSize)
  IN IF options.confirmationStrategy = NONE THEN TRUE
     ELSE IF options.confirmationStrategy = PROMPT THEN options.force
     ELSE IF options.confirmationStrategy = DRY_RUN THEN TRUE
     ELSE IF options.confirmationStrategy = SAFE_MODE
     THEN IF hasDirectories /\ ~options.recursive THEN FALSE
          ELSE IF totalSize * maxFileSize.den > maxFileSize.num /\ ~options.force THEN FALSE
          ELSE TRUE
     ELSE FALSE

\* DeleteFileTool.handleConfirmation: confirmed or not.
handleConfirmation(cfg, pathsInfo, options) ==
  LET totalItems == Len(pathsInfo)
      totalSize == SumSizes(pathsInfo)
      hasDirectories == \E i \in 1..Len(pathsInfo) : pathsInfo[i].isDirectory
      maxFileSize == DeleteFileTool_parseFileSize(
                       IF Len(cfg.maxFileSize) = 0 THEN <<"1", "0", "0", "M", "B">>
                       ELSE cfg.maxFileSize)
  IN IF options.confirmationStrategy = NONE THEN TRUE
     ELSE IF options.confirmationStrategy = PROMPT THEN options.force
     ELSE IF options.confirmationStrategy = DRY_RUN THEN TRUE
     ELSE IF options.confirmationStrategy = SAFE_MODE
     THEN IF hasDirectories /\ ~options.recursive THEN FALSE
          ELSE IF totalSize * maxFileSize.den > maxFileSize.num /\ ~options.force THEN FALSE
          ELSE IF totalItems > 10 /\ ~options.force THEN FALSE
          ELSE TRUE
     ELSE FALSE

RECURSIVE DeleteFileTool_copyDirectory(_, _, _)
RECURSIVE CopyItems(_, _, _, _, _)
\* DeleteFileTool.copyDirectory
DeleteFileTool_copyDirectory(f, source, destination) ==
  CHOOSE out \in
    { LET items == readdirSync(made.fs, source)
      IN IF ~made.ok \/ ~items.ok THEN FsResult(FALSE, made.fs, made.touched)
         ELSE CopyItems(made.fs, source, destination, items.names, made.touched)
      : made \in {mkdirSync(f, destination)} } : TRUE

\* The loop of copyDirectory over the entries read.
CopyItems(f, source, destination, names, acc) ==
  IF names = {} THEN FsResult(TRUE, f, acc)
  ELSE LET item == CHOOSE n \in names : TRUE
           sourcePath == join(source, item)
           destPath == join(destination, item)
           stats == lstatSync(f, sourcePath)
       IN CHOOSE out \in
            { IF ~r.ok THEN FsResult(FALSE, r.fs, acc \o r.touched)
              ELSE CopyItems(r.fs, source, destination, names \ {item}, acc \o r.touched)
              : r \in {IF ~stats.ok THEN FsResult(FALSE, f, <<>>)
                       ELSE IF stats.node.kind = "dir"
                       THEN DeleteFileTool_copyDirectory(f, sourcePath, destPath)
                       ELSE copyFileSync(f, sourcePath, destPath)} } : TRUE

\* DeleteFileTool.createBackup: the backup path (Undefined for null), the
\* filesystem left and the mutations made. An exception is caught inside.
createBackup(f, filePath, backupDirectory, timestamp) ==
  LET fileName == basename(filePath)
      backupFileName == fileName \o <<".", "b", "a", "c", "k", "u", "p", ".">> \o timestamp
      backupDir == IF backupDirectory = Undefined \/ backupDirectory = Some(<<>>)
                   THEN join(dirname(filePath), <<".", "b", "a", "c", "k", "u", "p", "s">>)
                   ELSE CHOOSE d \in backupDirectory : TRUE
  IN CHOOSE out \in
       { LET backupPath == join(backupDir, backupFileName)
             stats == lstatSync(made.fs, filePath)
         IN CHOOSE backup \in
              { [backupPath |-> IF copied.ok THEN Some(backupPath) ELSE Undefined,
                 fs |-> copied.fs,
                 touched |-> made.touched \o copied.touched]
                : copied \in {IF ~made.ok \/ ~stats.ok THEN FsResult(FALSE, made.fs, <<>>)
                              ELSE IF stats.node.kind = "dir"
                              THEN DeleteFileTool_copyDirectory(made.fs, filePath, backupPath)
                              ELSE copyFileSync(made.fs, filePath, backupPath)} } : TRUE
         : made \in {IF existsSync(f, resolve(<<backupDir>>)) THEN FsResult(TRUE, f, <<>>)
                     ELSE mkdirSync(f, backupDir)} } : TRUE

RECURSIVE deleteItem(_, _, _, _)
RECURSIVE DeleteItems(_, _, _, _)
\* DeleteFileTool.deleteItem
deleteItem(f, itemPath, isDirectory, recursive) ==
  IF isDirectory
  THEN IF recursive
       THEN LET items == readdirSync(f, itemPath)
            IN CHOOSE out \in
                 { CHOOSE emptied \in
                     { FsResult(removed.ok, removed.fs, inner.touched \o removed.touched)
                       : removed \in {rmdirSync(inner.fs, itemPath)} } : TRUE
                   : inner \in {IF items.ok THEN DeleteItems(f, itemPath, items.names, <<>>)
                                ELSE FsResult(FALSE, f, <<>>)} } : TRUE
       ELSE rmdirSync(f, itemPath)
  ELSE unlinkSync(f, itemPath)

\* The loop of deleteItem over the entries of a directory.
DeleteItems(f, itemPath, names, acc) ==
  IF names = {} THEN FsResult(TRUE, f, acc)
  ELSE LET item == CHOOSE n \in names : TRUE
           itemFullPath == join(itemPath, item)
           itemStats == lstatSync(f, itemFullPath)
       IN CHOOSE out \in
            { IF ~r.ok THEN FsResult(FALSE, r.fs, acc \o r.touched)
              ELSE DeleteItems(r.fs, itemPath, names \ {item}, acc \o r.touched)
              : r \in {IF ~itemStats.ok THEN FsResult(FALSE, f, <<>>)
                       ELSE deleteItem(f, itemFullPath, itemStats.node.kind = "dir",
                                       TRUE)} } : TRUE

RECURSIVE PerformDeleteFrom(_, _, _, _, _, _)
\* The loop of performDelete over the items, each in its own try block.
PerformDeleteFrom(f, pathsInfo, options, timestamp, result, touched) ==
  IF pathsInfo = <<>> THEN [fs |-> f, result |-> result, touched |-> touched]
  ELSE LET info == Head(pathsInfo)
       IN CHOOSE out \in
         { CHOOSE removed \in
             { CHOOSE counted \in
                 { PerformDeleteFrom(deleted.fs, Tail(pathsInfo), options, timestamp, next,
                                     touched \o backup.touched \o deleted.touched)
                   : next \in
                       {[result EXCEPT
                           !.recoveryInfo = Append(@, info.path),
                           !.backupsCreated =
                              IF backup.backupPath = Undefined THEN @
                              ELSE @ \o <<CHOOSE b \in backup.backupPath : TRUE>>,
                           !.warnings = IF result.dryRun THEN @ + 1 ELSE @,
                           !.itemsDeleted = IF deleted.ok THEN @ + 1 ELSE @,
                           !.totalSize = IF deleted.ok THEN @ + info.size ELSE @,
                           !.errors = IF deleted.ok THEN @ ELSE @ + 1,
                           !.itemsSkipped = IF deleted.ok THEN @ ELSE @ + 1,
                           !.success = @ /\ deleted.ok]} } : TRUE
               : deleted \in {IF result.dryRun THEN FsResult(TRUE, backup.fs, <<>>)
                              ELSE deleteItem(backup.fs, info.path, info.isDirectory,
                                              options.recursive)} } : TRUE
           : backup \in {IF options.createBackup /\ ~result.dryRun
                         THEN createBackup(f, info.path, options.backupDirectory, timestamp)
                         ELSE [backupPath |-> Undefined, fs |-> f, touched |-> <<>>]} } : TRUE

\* performDelete with the dry run taken from the dryRun flag alone.
performDelete_DryRunFlagOnly(f, pathsInfo, options, timestamp) ==
  PerformDeleteFrom(f, pathsInfo, options, timestamp,
    [success |-> TRUE, paths |-> [i \in 1..Len(pathsInfo) |-> pathsInfo[i].path],
     itemsDeleted |-> 0, itemsSkipped |-> 0, totalSize |-> 0, errors |-> 0,
     warnings |-> 0, recoveryInfo |-> <<>>, backupsCreated |-> <<>>,
     dryRun |-> options.dryRun],
    <<>>)

\* DeleteFileTool.performDelete
performDelete(f, pathsInfo, options, timestamp) ==
  PerformDeleteFrom(f, pathsInfo, options, timestamp,
    [success |-> TRUE, paths |-> [i \in 1..Len(pathsInfo) |-> pathsInfo[i].path],
     itemsDeleted |-> 0, itemsSkipped |-> 0, totalSize |-> 0, errors |-> 0,
     warnings |-> 0, recoveryInfo |-> <<>>, backupsCreated |-> <<>>,
     dryRun |-> options.dryRun \/ options.confirmationStrategy = DRY_RUN],
    <<>>)

RECURSIVE ValidateAll(_, _, _, _, _)
\* Step 1 of DeleteFileTool.handler: validatePath on each path in turn, up
\* to the first that is rejected.
ValidateAll(v, f, paths, now, acc) ==
  IF paths = <<>> THEN acc
  ELSE CHOOSE out \in
         { CHOOSE recorded \in
             { IF ~r.res.isValid THEN next
               ELSE ValidateAll(v, f, Tail(paths), now + 1, next)
               : next \in {[ok |-> r.res.isValid,
                           validatedPaths |->
                             IF r.res.isValid
                             THEN Append(acc.validatedPaths, r.res.resolvedPath)
                             ELSE acc.validatedPaths,
                           events |-> acc.events \o r.events,
                           made |-> acc.made + 1,
                           last |-> CallRecord(Head(paths), r)]} } : TRUE
           : r \in {validatePath(v, f, Head(paths), now)} } : TRUE

\* The timestamp of a backup file name, from the clock.
RECURSIVE ToDigits(_)
ToDigits(n) == IF n < 10 THEN <<Digits[n + 1]>> ELSE Append(ToDigits(n \div 10), Digits[(n % 10) + 1])

\* DeleteFileTool.handler, args as parsed by deleteFileSchema; previous is
\* the validatePath call made last before the handler ran.
DeleteFileTool_handler(v, cfg, f, args, now, previous) ==
  LET paths == args.path
  IN IF paths = <<>> \/ \E i \in 1..Len(paths) : paths[i] = <<>>
     THEN ToolOutcome(f, <<>>, 0, previous, <<>>, createErrorResponse("validation"))
     ELSE CHOOSE out \in
       { LET Error(errorType) ==
               ToolOutcome(f, val.events, val.made, val.last, <<>>,
                           createErrorResponse(errorType))
         IN IF ~val.ok THEN Error("validation")
            ELSE IF \E i \in 1..Len(val.validatedPaths) :
                      ~existsSync(f, val.validatedPaths[i])
            THEN Error("filesystem")
            ELSE CHOOSE listed \in
              { IF \E i \in 1..Len(pathsInfo) : pathsInfo[i].isDirectory /\ ~args.recursive
                THEN Error("validation")
                ELSE IF ~handleConfirmation(cfg, pathsInfo, args) THEN Error("validation")
                ELSE CHOOSE deleted \in
                  { ToolOutcome(done.fs, val.events, val.made, val.last, done.touched,
                                createSuccessResponse(done.result))
                    : done \in {performDelete(f, pathsInfo, args,
                                              ToDigits(now + val.made))} } : TRUE
                : pathsInfo \in
                    {[i \in 1..Len(val.validatedPaths) |->
                        LET stats == lstatSync(f, val.validatedPaths[i])
                        IN [path |-> val.validatedPaths[i],
                            isDirectory |-> stats.node.kind = "dir",
                            size |-> stats.node.size]]} } : TRUE
         : val \in {ValidateAll(v, f, paths, now,
                                [ok |-> TRUE, validatedPaths |-> <<>>, events |-> <<>>,
                                 made |-> 0, last |-> previous])} } : TRUE

\* ------------------------------------------------------------------------
\* CopyFileTool. Timestamps are not part of the filesystem here: the
\* utimesSync calls of preserveTimestamps leave it as it is.
\* ------------------------------------------------------------------------
\* CollisionStrategy
SKIP == "skip"
OVERWRITE == "overwrite"
RENAME == "rename"
FAIL == "fail"
CollisionStrategy == {SKIP, OVERWRITE, RENAME, FAIL}

\* The CopyResult a copy starts from.
CopyResult ==
  [success |-> TRUE, itemsProcessed |-> 0, itemsSkipped |-> 0, errors |-> 0, warnings |-> 0,
   renamedItems |-> <<>>]

\* What a step of the copy leaves: the filesystem, the result, the mutations.
CopyOutcome(f, result, touched) == [fs |-> f, result |-> result, touched |-> touched]

\* An exception caught by copyFile or copyDirectory.
CopyFailed(f, result, touched) ==
  CopyOutcome(f, [result EXCEPT !.errors = @ + 1, !.success = FALSE], touched)

RECURSIVE UniqueNameFrom(_, _, _)
\* The loop of generateUniqueName from the given counter.
UniqueNameFrom(f, filePath, counter) ==
  LET ext == extname(filePath)
      base == basename(filePath)
      baseName == SubSeq(base, 1, Len(base) - Len(ext))
      newPath == join(dirname(filePath),
                      baseName \o <<"_", "c", "o", "p", "y", "_">> \o ToDigits(counter) \o ext)
  IN IF existsSync(f, newPath) THEN UniqueNameFrom(f, filePath, counter + 1) ELSE newPath

\* CopyFileTool.generateUniqueName
generateUniqueName(f, filePath) == UniqueNameFrom(f, filePath, 1)

\* CopyFileTool.handleCollision: the path to copy to (Undefined for null),
\* or the exception of strategy fail.
handleCollision(f, destPath, options, result) ==
  IF ~existsSync(f, destPath) THEN [threw |-> FALSE, path |-> Some(destPath), result |-> result]
  ELSE IF options.collisionStrategy = SKIP
  THEN [threw |-> FALSE, path |-> Undefined, result |-> [result EXCEPT !.warnings = @ + 1]]
  ELSE IF options.collisionStrategy = OVERWRITE
  THEN [threw |-> FALSE, path |-> Some(destPath),
        result |-> [result EXCEPT !.warnings = @ + 1]]
  ELSE IF options.collisionStrategy = RENAME
  THEN CHOOSE out \in
         { [threw |-> FALSE, path |-> Some(renamedPath),
            result |-> [result EXCEPT !.renamedItems =
                          Append(@, [original |-> destPath, renamed |-> renamedPath])]]
           : renamedPath \in {generateUniqueName(f, destPath)} } : TRUE
  ELSE [threw |-> TRUE, path |-> Undefined, result |-> result]

\* CopyFileTool.copyFile after its await of handleCollision: the
\* destination directory made when missing, the file copied.
copyFileTo(f, sourcePath, collision) ==
  IF collision.threw THEN CopyFailed(f, collision.result, <<>>)
  ELSE IF collision.path = Undefined
  THEN CopyOutcome(f, [collision.result EXCEPT !.itemsSkipped = @ + 1], <<>>)
  ELSE CHOOSE out \in
    { CHOOSE made \in
        { IF ~dirs.ok THEN CopyFailed(dirs.fs, collision.result, dirs.touched)
          ELSE CHOOSE done \in
            { IF ~copied.ok THEN CopyFailed(copied.fs, collision.result, dirs.touched)
              ELSE CopyOutcome(copied.fs, [collision.result EXCEPT !.itemsProcessed = @ + 1],
                               dirs.touched \o copied.touched)
              : copied \in {copyFileSync(dirs.fs, sourcePath, finalDestPath)} } : TRUE
          : dirs \in {IF ~existsSync(f, dirname(finalDestPath))
                      THEN mkdirSync(f, dirname(finalDestPath))
                      ELSE FsResult(TRUE, f, <<>>)} } : TRUE
      : finalDestPath \in collision.path } : TRUE

\* CopyFileTool.copyFile
copyFile(f, sourcePath, destPath, options, result) ==
  CHOOSE out \in
    { copyFileTo(f, sourcePath, collision)
      : collision \in {handleCollision(f, destPath, options, result)} } : TRUE

RECURSIVE CopyFileTool_copyDirectory(_, _, _, _, _)
RECURSIVE CopyDirectoryItems(_, _, _, _, _, _, _)
\* CopyFileTool.copyDirectory
CopyFileTool_copyDirectory(f, sourcePath, destPath, options, result) ==
  CHOOSE out \in
    { LET items == readdirSync(made.fs, sourcePath)
      IN IF ~made.ok \/ ~items.ok THEN CopyFailed(made.fs, result, made.touched)
         ELSE CopyDirectoryItems(made.fs, sourcePath, destPath, options, items.names, result,
                                 made.touched)
      : made \in {IF ~existsSync(f, destPath) THEN mkdirSync(f, destPath)
                  ELSE FsResult(TRUE, f, <<>>)} } : TRUE

\* The loop of copyDirectory over the entries read, each in its own try block.
CopyDirectoryItems(f, sourcePath, destPath, options, names, result, touched) ==
  IF names = {} THEN CopyOutcome(f, result, touched)
  ELSE LET item == CHOOSE n \in names : TRUE
           sourceItemPath == join(sourcePath, item)
           destItemPath == join(destPath, item)
           itemStats == lstatSync(f, sourceItemPath)
       IN CHOOSE out \in
            { CopyDirectoryItems(r.fs, sourcePath, destPath, options, names \ {item}, r.result,
                                 touched \o r.touched)
              : r \in {IF ~itemStats.ok THEN CopyFailed(f, result, <<>>)
                       ELSE IF itemStats.node.kind = "dir"
                       THEN CopyFileTool_copyDirectory(f, sourceItemPath, destItemPath, options,
                                                       result)
                       ELSE IF itemStats.node.kind = "link" /\ ~options.followSymlinks
                       THEN CopyOutcome(f, [result EXCEPT !.warnings = @ + 1,
                                                          !.itemsSkipped = @ + 1], <<>>)
                       ELSE copyFile(f, sourceItemPath, destItemPath, options, result)} } : TRUE

\* CopyFileTool.performCopy
performCopy(f, sourcePath, destPath, options, isDirectory) ==
  IF isDirectory THEN CopyFileTool_copyDirectory(f, sourcePath, destPath, options, CopyResult)
  ELSE copyFile(f, sourcePath, destPath, options, CopyResult)

\* The options step 7 of CopyFileTool.handler passes to validateFile.
CopyFileOptions ==
  [NoOptions EXCEPT !.checkSize = Some(TRUE), !.checkExtension = Some(TRUE),
                    !.checkMimeType = Some(TRUE)]

\* Steps 1 to 7 of CopyFileTool.handler, args as parsed by copyFileSchema:
\* both paths validated, the source looked up and checked against the file
\* policy. previous is the validatePath call made last before the handler ran.
CopyFileTool_checks(v, cfg, f, args, now, previous) ==
  IF args.source = <<>> \/ args.destination = <<>>
  THEN [ok |-> FALSE, errorType |-> "validation", events |-> <<>>, made |-> 0,
        last |-> previous, sourcePath |-> <<>>, destPath |-> <<>>, isDirectory |-> FALSE]
  ELSE CHOOSE out \in
    { LET Error(errorType, events, made, lastCall) ==
            [ok |-> FALSE, errorType |-> errorType, events |-> events, made |-> made,
             last |-> lastCall, sourcePath |-> <<>>, destPath |-> <<>>, isDirectory |-> FALSE]
      IN IF ~sourceValidation.res.isValid
         THEN Error("validation", sourceValidation.events, 1,
                    CallRecord(args.source, sourceValidation))
         ELSE CHOOSE second \in
           { LET events == sourceValidation.events \o destValidation.events
                 lastCall == CallRecord(args.destination, destValidation)
                 sourcePath == sourceValidation.res.resolvedPath
                 destPath == destValidation.res.resolvedPath
                 sourceStats == lstatSync(f, sourcePath)
                 isDirectory == sourceStats.node.kind = "dir"
             IN IF ~destValidation.res.isValid THEN Error("validation", events, 2, lastCall)
                ELSE IF ~existsSync(f, sourcePath) THEN Error("filesystem", events, 2, lastCall)
                ELSE IF sourceStats.node.kind = "link" /\ ~args.followSymlinks
                THEN Error("validation", events, 2, lastCall)
                ELSE IF isDirectory /\ ~args.recursive
                THEN Error("validation", events, 2, lastCall)
                ELSE CHOOSE checked \in
                  { IF ~isDirectory /\ fileValidationResult.threw
                    THEN Error("system", events, 2, lastCall)
                    ELSE IF ~isDirectory /\ ~fileValidationResult.isValid
                    THEN Error("validation", events, 2, lastCall)
                    ELSE [ok |-> TRUE, errorType |-> "", events |-> events, made |-> 2,
                          last |-> lastCall, sourcePath |-> sourcePath, destPath |-> destPath,
                          isDirectory |-> isDirectory]
                    : fileValidationResult \in
                        {validateFile(cfg, f, sourcePath, CopyFileOptions)} } : TRUE
             : destValidation \in {validatePath(v, f, args.destination, now + 1)} } : TRUE
      : sourceValidation \in {validatePath(v, f, args.source, now)} } : TRUE

\* CopyFileTool.handler run without a pause.
CopyFileTool_handler(v, cfg, f, args, now, previous) ==
  CHOOSE out \in
    { IF ~checks.ok
      THEN ToolOutcome(f, checks.events, checks.made, checks.last, <<>>,
                       createErrorResponse(checks.errorType))
      ELSE CHOOSE copied \in
        { ToolOutcome(copyResult.fs, checks.events, checks.made, checks.last,
                      copyResult.touched, createSuccessResponse(copyResult.result))
          : copyResult \in {performCopy(f, checks.sourcePath, checks.destPath, args,
                                        checks.isDirectory)} } : TRUE
      : checks \in {CopyFileTool_checks(v, cfg, f, args, now, previous)} } : TRUE

\* ------------------------------------------------------------------------
\* Configuration
\* ------------------------------------------------------------------------
\* ConfigurationManager.postProcessConfiguration: the allowed directories
expandAllowedDirectory(dir) ==
  IF StartsWith(dir, <<"~", "/">>) THEN join(HomeDir, Slice(dir, 2))
  ELSE resolve(<<dir>>)

postProcessConfiguration(cfg) ==
  [cfg EXCEPT !.allowedDirectories =
     [i \in 1..Len(cfg.allowedDirectories) |->
        expandAllowedDirectory(cfg.allowedDirectories[i])]]

\* The allowed-directory lists of the configurations explored: two named
\* directories; the home directory together with the root.
RawDirectoryChoices ==
  { << <<"~", "/", "a">>, <<"/", "a">> >>,
    << <<"/", "h">>, <<"/">> >> }

\* ServerConfigurationSchema: the fields the validators read, with their defaults.
DefaultConfiguration ==
  [securityLevel |-> STRICT,
   allowedDirectories |-> << <<"~", "/", "D", "o", "c", "u", "m", "e", "n", "t", "s">>,
                             <<"~", "/", "D", "e", "s", "k", "t", "o", "p">> >>,
   maxFileSize |-> <<"1", "0", "M", "B">>,
   allowedExtensions |-> << <<"*">> >>,
   blockedExtensions |-> <<>>,
   allowedMimeTypes |-> <<>>,
   blockedMimeTypes |-> <<>>,
   allowedFileCategories |-> <<>>,
   blockedFileCategories |-> <<>>]

\* The configurations of the path requests: every level, each directory list.
Configurations ==
  { postProcessConfiguration([DefaultConfiguration EXCEPT
                                !.securityLevel = l, !.allowedDirectories = d]) :
      l \in SecurityLevel, d \in RawDirectoryChoices }

\* The configurations of the file requests: every level, extension lists and
\* size limits around the files of FsFiles.
FileConfigurations ==
  { postProcessConfiguration([DefaultConfiguration EXCEPT
                                !.securityLevel = l,
                                !.allowedDirectories = << <<"/", "a">> >>,
                                !.maxFileSize = m,
                                !.allowedExtensions = ae,
                                !.blockedExtensions = be]) :
      l \in SecurityLevel,
      m \in { <<"2", "B">>, <<"1", "0", "M", "B">> },
      ae \in { << <<"*">> >>, << <<".", "t", "x", "t">>, <<".", "j", "s">> >> },
      be \in { <<>>, << <<".", "z", "i", "p">> >> } }

\* The configurations of the tool requests: every level, /a allowed, a size
\* limit below and one above the sizes of the files of FsTools.
ToolConfigurations ==
  { postProcessConfiguration([DefaultConfiguration EXCEPT
                                !.securityLevel = l,
                                !.allowedDirectories = << <<"/", "a">> >>,
                                !.maxFileSize = m]) :
      l \in SecurityLevel,
      m \in { <<"2", "B">>, <<"1", "0", "M", "B">> } }

\* ------------------------------------------------------------------------
\* Configuration sources. A source supplies a Partial<ServerConfiguration>:
\* every field is Undefined or Some(value).
\* ------------------------------------------------------------------------
ConfigSource ==
  [DEFAULT |-> "default", CONFIG_FILE |-> "config_file", ENVIRONMENT |-> "environment",
   CLI_ARGS |-> "cli_args"]

\* value.split(',').map(item => item.trim())
splitList(value) ==
  LET seps == {i \in 1..Len(value) : value[i] = ","}
      n == Cardinality(seps)
      Sep(k) == IF k = 0 THEN 0
                ELSE IF k = n + 1 THEN Len(value) + 1
                ELSE CHOOSE i \in seps : Cardinality({j \in seps : j < i}) = k - 1
      trim(s) == LET kept == {i \in 1..Len(s) : s[i] \notin WhiteSpace}
                 IN IF kept = {} THEN <<>>
                    ELSE SubSeq(s, CHOOSE i \in kept : \A j \in kept : i <= j,
                                   CHOOSE i \in kept : \A j \in kept : j <= i)
  IN [k \in 1..(n + 1) |-> trim(SubSeq(value, Sep(k - 1) + 1, Sep(k) - 1))]

\* ConfigurationManager.loadFromEnvironment: a variable that is unset or
\* empty supplies nothing; an unknown security level is an error and supplies
\* nothing; the size string is taken as it is.
loadFromEnvironment(env) ==
  LET list(v) == IF v # Undefined /\ v # Some(<<>>)
                 THEN Some(splitList(CHOOSE s \in v : TRUE)) ELSE Undefined
      level == env.MCP_FS_SECURITY_LEVEL
  IN [config |->
        [allowedDirectories |-> list(env.MCP_FS_ALLOWED_DIRS),
         securityLevel |-> IF level \subseteq SecurityLevel THEN level ELSE Undefined,
         maxFileSize |-> IF env.MCP_FS_MAX_FILE_SIZE # Some(<<>>)
                         THEN env.MCP_FS_MAX_FILE_SIZE ELSE Undefined,
         allowedExtensions |-> list(env.MCP_FS_ALLOWED_EXTENSIONS),
         blockedExtensions |-> list(env.MCP_FS_BLOCKED_EXTENSIONS),
         allowedMimeTypes |-> list(env.MCP_FS_ALLOWED_MIME_TYPES),
         blockedMimeTypes |-> list(env.MCP_FS_BLOCKED_MIME_TYPES),
         allowedFileCategories |-> list(env.MCP_FS_ALLOWED_FILE_CATEGORIES),
         blockedFileCategories |-> list(env.MCP_FS_BLOCKED_FILE_CATEGORIES)],
      errors |-> IF level # Undefined /\ level # Some("") /\ ~(level \subseteq SecurityLevel)
                 THEN <<"Invalid security level">> ELSE <<>>]

\* ConfigurationManager.mergeConfigurations: every field the override
\* supplies replaces the base's and is recorded as coming from source.
mergeConfigurations(base, override, sources, source) ==
  [config |-> [key \in DOMAIN base |->
                 IF override[key] # Undefined THEN CHOOSE v \in override[key] : TRUE
                 ELSE base[key]],
   sources |-> [key \in DOMAIN base |->
                  IF override[key] # Undefined THEN source ELSE sources[key]]]

\* ConfigurationManager.loadConfiguration on the parsed configuration file
\* fileConfig (Undefined when none is found) and the environment env. Command
\* line arguments are not read. Of the values the sources supply here, only a
\* security level outside the enum fails ServerConfigurationSchema.parse; the
\* ZodError is recorded and the merged configuration is kept.
loadConfiguration(fileConfig, env) ==
  LET defaults == [config |-> DefaultConfiguration,
                   sources |-> [key \in DOMAIN DefaultConfiguration |-> ConfigSource.DEFAULT]]
      withFile == IF fileConfig # Undefined
                  THEN mergeConfigurations(defaults.config, CHOOSE c \in fileConfig : TRUE,
                                           defaults.sources, ConfigSource.CONFIG_FILE)
                  ELSE defaults
      fromEnv == loadFromEnvironment(env)
      envConfig == IF \A key \in DOMAIN fromEnv.config : fromEnv.config[key] = Undefined
                   THEN Undefined ELSE Some(fromEnv.config)
      merged == IF envConfig # Undefined
                THEN mergeConfigurations(withFile.config, CHOOSE c \in envConfig : TRUE,
                                         withFile.sources, ConfigSource.ENVIRONMENT)
                ELSE withFile
      validationErrors == IF merged.config.securityLevel \in SecurityLevel THEN <<>>
                          ELSE <<"Configuration validation failed">>
      processErrors == IF isValidFileSize(merged.config.maxFileSize) THEN <<>>
                       ELSE <<"Invalid file size format">>
  IN [config |-> postProcessConfiguration(merged.config),
      sources |-> merged.sources,
      errors |-> fromEnv.errors \o validationErrors \o processErrors]

\* The sources a reload finds: the parsed configuration file and the
\* variables of the environment.
ConfigurationSources ==
  LET none == [key \in DOMAIN DefaultConfiguration |-> Undefined]
      unset == [MCP_FS_ALLOWED_DIRS |-> Undefined, MCP_FS_SECURITY_LEVEL |-> Undefined,
                MCP_FS_MAX_FILE_SIZE |-> Undefined, MCP_FS_ALLOWED_EXTENSIONS |-> Undefined,
                MCP_FS_BLOCKED_EXTENSIONS |-> Undefined, MCP_FS_ALLOWED_MIME_TYPES |-> Undefined,
                MCP_FS_BLOCKED_MIME_TYPES |-> Undefined,
                MCP_FS_ALLOWED_FILE_CATEGORIES |-> Undefined,
                MCP_FS_BLOCKED_FILE_CATEGORIES |-> Undefined]
      txt == <<".", "t", "x", "t">>
      js == <<".", "j", "s">>
      zip == <<".", "z", "i", "p">>
  IN [configFile :
        { Undefined,
          Some([none EXCEPT !.securityLevel = Some(MODERATE),
                            !.allowedExtensions = Some(<<txt, js>>),
                            !.blockedExtensions = Some(<<zip>>)]),
          Some([none EXCEPT !.securityLevel = Some("paranoid")]),
          Some([none EXCEPT !.securityLevel = Some(MODERATE),
                            !.blockedMimeTypes = Some(<<getMimeType(zip)>>),
                            !.allowedFileCategories = Some(<<TEXT, ARCHIVE>>)]),
          Some([none EXCEPT !.securityLevel = Some(PERMISSIVE),
                            !.allowedMimeTypes = Some(<<getMimeType(js)>>),
                            !.blockedFileCategories = Some(<<CODE>>)]),
          Some([none EXCEPT !.allowedDirectories = Some(<< <<"a">>, <<"~">>, <<"~", "/", "a", "/">> >>),
                            !.maxFileSize = Some(<<"2", "B">>)]) },
      env :
        { unset,
          [unset EXCEPT !.MCP_FS_SECURITY_LEVEL = Some(PERMISSIVE)],
          [unset EXCEPT !.MCP_FS_SECURITY_LEVEL = Some("paranoid"),
                        !.MCP_FS_MAX_FILE_SIZE = Some(<<>>)],
          [unset EXCEPT !.MCP_FS_MAX_FILE_SIZE = Some(<<"b", "i", "g">>)],
          [unset EXCEPT !.MCP_FS_ALLOWED_DIRS = Some(<<"a", ",", " ", "~", "/", "a">>),
                        !.MCP_FS_MAX_FILE_SIZE = Some(<<"1", ".", "5", "k", "b">>)],
          [unset EXCEPT !.MCP_FS_ALLOWED_EXTENSIONS = Some(<<".", "t", "x", "t", ",", ".", "j", "s">>),
                        !.MCP_FS_SECURITY_LEVEL = Some("")] }]

\* ------------------------------------------------------------------------
\* Inputs
\* ------------------------------------------------------------------------
Tokens ==
  { <<"a">>, <<"/">>, <<".">>, <<".", ".">>, <<"\\">>, <<"~">>, <<" ">>,
    <<"%", "2", "e">>, <<"%", "2", "f">>, <<"%">> }

TokenSeqs(n) == UNION { [1..k -> Tokens] : k \in 0..n }

\* The raw paths a caller may send: up to MaxTokens tokens, a non-string, or
\* a path one level below the entry a of the directory ~/a.
Inputs ==
  { Flatten(ts) : ts \in TokenSeqs(MaxTokens) }
    \cup {NotAString}
    \cup { <<"a", "/", "a", "/", "a">>, <<"~", "/", "a", "/", "a", "/", "a">> }

\* A rejected path validated between two calls on a request.
Probes == { <<".", ".", "/", "a">> }

BaseDirs ==
  (<<"/">> :> Dir) @@ (<<"/", "h">> :> Dir) @@ (<<"/", "h", "/", "a">> :> Dir) @@ (<<"/", "a">> :> Dir)
  @@ (<<"/", "t">> :> Dir) @@ (<<"/", "w">> :> Dir)

\* No symbolic link.
FsPlain == BaseDirs @@ (<<"/", "h", "/", "a", "/", "a">> :> File(1))

\* /h/a/a is a link to /t and /h/a/~ a link to /a.
FsLinks ==
  BaseDirs @@ (<<"/", "h", "/", "a", "/", "a">> :> Link(<<"/", "t">>))
           @@ (<<"/", "h", "/", "a", "/", "~">> :> Link(<<"/", "a">>))

InitialFs == {FsPlain, FsLinks}

\* The raw paths of the file requests, all below the allowed directory /a.
FileRequests ==
  { <<"/", "a", "/", "f", ".", "t", "x", "t">>,
    <<"/", "a", "/", "f", ".", "j", "s">>,
    <<"/", "a", "/", "f", ".", "J", "S">>,
    <<"/", "a", "/", "f", ".", "e", "x", "e">>,
    <<"/", "a", "/", "f", ".", "z", "i", "p">>,
    <<"/", "a", "/", "f", ".", "d", "m", "g">>,
    <<"/", "a", "/", "f">>,
    <<"/", "a", "/", ".", "j", "s">> }

\* The filesystem of the file requests: f.txt of 2 bytes, f.js of 3 bytes,
\* f.zip of 1 byte; the other files do not exist yet.
FsFiles ==
  BaseDirs @@ (<<"/", "a", "/", "f", ".", "t", "x", "t">> :> File(2))
           @@ (<<"/", "a", "/", "f", ".", "j", "s">> :> File(3))
           @@ (<<"/", "a", "/", "f", ".", "z", "i", "p">> :> File(1))

\* The options the callers pass to validateFile: none; those of the write
\* handler; size overrides; skip flags with the lists that the skipped gate
\* would reject by; override lists for every gate.
FileOptionChoices ==
  LET txt == <<".", "t", "x", "t">>
      js == <<".", "j", "s">>
      zip == <<".", "z", "i", "p">>
  IN { NoOptions,
       [NoOptions EXCEPT !.checkSize = Some(FALSE), !.checkExtension = Some(TRUE),
                         !.checkMimeType = Some(TRUE)],
       [NoOptions EXCEPT !.maxSize = Some(3)],
       [NoOptions EXCEPT !.maxSize = Some(0)],
       [NoOptions EXCEPT !.maxSize = Some(2),
                         !.blockedExtensions = Some(<<js>>),
                         !.blockedMimeTypes = Some(<<getMimeType(txt), getMimeType(js)>>),
                         !.blockedCategories = Some(<<TEXT, CODE>>)],
       [NoOptions EXCEPT !.checkExtension = Some(FALSE), !.blockedExtensions = Some(<<txt>>),
                         !.blockedCategories = Some(<<TEXT>>)],
       [NoOptions EXCEPT !.checkMimeType = Some(FALSE),
                         !.blockedMimeTypes = Some(<<getMimeType(txt)>>)],
       [NoOptions EXCEPT !.checkSize = Some(FALSE), !.checkExtension = Some(FALSE),
                         !.checkMimeType = Some(FALSE), !.blockedCategories = Some(<<TEXT>>)],
       [NoOptions EXCEPT !.allowedMimeTypes = Some(<<getMimeType(txt), getMimeType(zip)>>),
                         !.allowedCategories = Some(<<TEXT>>)],
       [NoOptions EXCEPT !.allowedExtensions = Some(<<txt>>)] }

\* The filesystem of the tool requests: /a/f.txt of 2 bytes, the directory
\* /a/d with g.txt and s.exe of 1 byte each, and /t/x.txt outside the
\* allowed directory.
FsTools ==
  BaseDirs @@ (<<"/", "a", "/", "f", ".", "t", "x", "t">> :> File(2))
           @@ (<<"/", "a", "/", "d">> :> Dir)
           @@ (<<"/", "a", "/", "d", "/", "g", ".", "t", "x", "t">> :> File(1))
           @@ (<<"/", "a", "/", "d", "/", "s", ".", "e", "x", "e">> :> File(1))
           @@ (<<"/", "t", "/", "x", ".", "t", "x", "t">> :> File(1))

\* The write_file requests.
WriteRequests ==
  [path : { <<"/", "a", "/", "n", ".", "t", "x", "t">>, <<"/", "a", "/", "f", ".", "t", "x", "t">>,
            <<"/", "a", "/", "m", "/", "n", ".", "j", "s">>, <<"/", "a", "/", "n", ".", "e", "x", "e">>,
            <<"/", "t", "/", "n", ".", "t", "x", "t">> },
   content : { <<"x">>, <<"x", "\r", "\n", "x", "x">> },
   encoding : { Undefined, Some(<<"U", "T", "F", "8">>), Some(<<"b", "i", "n">>) },
   createDirectories : BOOLEAN,
   overwrite : BOOLEAN]

\* The delete_file requests: one path, two paths, and one file named ten and
\* eleven times; the backup directory absent, a directory, a missing
\* directory or a file. No backup directory lies below a path to delete: the
\* backup copy of a directory into itself does not end.
DeleteRequests ==
  { args \in [path : { << <<"/", "a", "/", "f", ".", "t", "x", "t">> >>, << <<"/", "a", "/", "d">> >>,
                       << <<"/", "a", "/", "f", ".", "t", "x", "t">>, <<"/", "a", "/", "d", "/", "g", ".", "t", "x", "t">> >>,
                       << <<"/", "t", "/", "x", ".", "t", "x", "t">> >>, << <<"/", "a">> >>,
                       [i \in 1..10 |-> <<"/", "a", "/", "d", "/", "g", ".", "t", "x", "t">>],
                       [i \in 1..11 |-> <<"/", "a", "/", "d", "/", "g", ".", "t", "x", "t">>] },
              recursive : BOOLEAN,
              confirmationStrategy : ConfirmationStrategy,
              force : BOOLEAN,
              createBackup : BOOLEAN,
              backupDirectory : { Undefined, Some(<<"/", "t">>), Some(<<"/", "a", "/", "b">>),
                                  Some(<<"/", "a", "/", "f", ".", "t", "x", "t">>) },
              dryRun : BOOLEAN] :
      /\ ~args.createBackup => args.backupDirectory = Undefined
      /\ \A d \in args.backupDirectory : \A i \in 1..Len(args.path) :
           ~IsSegPrefix(PathSegs(resolveAbsolutePath(args.path[i])), PathSegs(d)) }

\* The copy_file requests. No destination lies below the source: the copy of
\* a directory into itself does not end.
CopyRequests ==
  { args \in [source : { <<"/", "a", "/", "f", ".", "t", "x", "t">>, <<"/", "a", "/", "d">>,
                         <<"/", "t", "/", "x", ".", "t", "x", "t">> },
              destination : { <<"/", "a", "/", "n", ".", "t", "x", "t">>,
                              <<"/", "a", "/", "n", ".", "e", "x", "e">>,
                              <<"/", "a", "/", "f", ".", "t", "x", "t">>,
                              <<"/", "a", "/", "e">>,
                              <<"/", "a", "/", "d", "/", "g", ".", "t", "x", "t">> },
              recursive : BOOLEAN,
              collisionStrategy : CollisionStrategy,
              preserveTimestamps : {TRUE},
              followSymlinks : {FALSE}] :
      ~IsSegPrefix(PathSegs(args.source), PathSegs(args.destination)) }

\* The copy_file requests served side by side: files copied to one new
\* name, and paths the validator rejects.
ServerCopyRequests ==
  [source : { <<"/", "a", "/", "f", ".", "t", "x", "t">>,
              <<"/", "a", "/", "d", "/", "g", ".", "t", "x", "t">>,
              <<"/", "t", "/", "x", ".", "t", "x", "t">> },
   destination : { <<"/", "a", "/", "n", ".", "t", "x", "t">>, <<".", ".", "/", "n">> },
   recursive : {FALSE},
   collisionStrategy : CollisionStrategy,
   preserveTimestamps : {TRUE},
   followSymlinks : {FALSE}]

\* ------------------------------------------------------------------------
\* State
\* ------------------------------------------------------------------------
VARIABLES
  config,          \* ConfigurationManager.configuration.config
  validator,       \* the server's PathValidator
  securityEvents,  \* PathValidator.securityEvents
  fs,              \* the filesystem
  request,         \* the raw path of the request under validation
  last,            \* the last validatePath call: input, result, gates, fs calls
  results,         \* the results of the calls made on request, in order
  calls,           \* the number of validatePath calls made (the clock)
  fileCall,        \* the last validateFile call: path, options, result
  mutations,       \* the filesystem mutations the tool handlers made, in order
  toolCall,        \* the last tool call: tool, arguments and response
  served,          \* the number of tool calls served
  configCall,      \* the last reloadConfiguration call: sources and result
  inflight,        \* the copy_file calls waiting at the await of handleCollision
  reported,        \* the batches of security events the server printed, in order
  phase            \* the process: running, closing (shutdown began) or exited

vars == <<config, validator, securityEvents, fs, request, last, results, calls, fileCall,
          mutations, toolCall, served, configCall, inflight, reported, phase>>

\* The state of the server around its tools.
serverVars == <<inflight, reported, phase>>

\* The catch block clearing the log without printing it.
CallToolCatch_ClearOnly(log, printed) ==
  [log |-> clearSecurityEvents(log), reported |-> printed]

\* The catch block of the CallTool handler: the log read; when it holds an
\* event, printed and cleared.
CallToolCatch(log, printed) ==
  LET events == getSecurityEvents(log)
  IN IF Len(events) > 0
     THEN [log |-> clearSecurityEvents(log), reported |-> Append(printed, events)]
     ELSE [log |-> log, reported |-> printed]

\* The shutdown handler: the log read and, when it holds an event, printed.
ShutdownReport(log, printed) ==
  LET events == getSecurityEvents(log)
  IN IF Len(events) > 0 THEN Append(printed, events) ELSE printed

NoCall ==
  [called |-> FALSE, input |-> <<>>, res |-> createValidationResult(FALSE, <<>>, {}, {}),
   gates |-> <<>>, fsCalls |-> <<>>]

NoFileCall ==
  [called |-> FALSE, path |-> <<>>, options |-> NoOptions,
   res |-> FileResult(FALSE, Undefined, <<>>, Undefined)]

NoToolCall == [tool |-> "", args |-> <<>>, response |-> createErrorResponse("")]

NoConfigCall ==
  [called |-> FALSE, configFile |-> Undefined, env |-> Undefined,
   res |-> [config |-> DefaultConfiguration, sources |-> <<>>, errors |-> <<>>]]

\* The server after construction, nothing validated and no tool call served.
Constructed ==
  /\ validator = createFromConfiguration(config)
  /\ securityEvents = <<>>
  /\ last = NoCall
  /\ results = <<>>
  /\ calls = 0
  /\ fileCall = NoFileCall
  /\ mutations = <<>>
  /\ toolCall = NoToolCall
  /\ served = 0
  /\ configCall = NoConfigCall
  /\ inflight = {}
  /\ reported = <<>>
  /\ phase = "running"

\* The server after construction, with one request to validate: a path
\* request or a file request.
Init ==
  /\ \/ config \in Configurations /\ fs \in InitialFs /\ request \in Inputs
     \/ config \in FileConfigurations /\ fs = FsFiles /\ request \in FileRequests
  /\ Constructed

\* One call validatePath(p) on the server's validator.
Call(p) ==
  LET r == validatePath(validator, fs, p, calls + 1)
  IN /\ calls < MaxCalls
     /\ calls' = calls + 1
     /\ securityEvents' = pushEvents(securityEvents, r.events)
     /\ last' = [called |-> TRUE, input |-> p, res |-> r.res, gates |-> r.gates,
                 fsCalls |-> r.fsCalls]
     /\ results' = IF p = request THEN Append(results, r.res) ELSE results
     /\ UNCHANGED <<config, validator, fs, request, fileCall, mutations, toolCall, served,
                  configCall, serverVars>>

ValidateRequest == Call(request)

ValidateProbe == \E p \in Probes : p # request /\ Call(p)

\* One call validateFile on the path validatePath admitted, as the tool
\* handlers make it. The call is a function of the configuration, the
\* filesystem and its arguments: a second call would leave a record that
\* the first call of another behaviour leaves, and is not taken.
ValidateFile ==
  /\ last.called /\ last.res.isValid
  /\ ~fileCall.called
  /\ \E options \in FileOptionChoices :
       fileCall' = [called |-> TRUE, path |-> last.res.resolvedPath, options |-> options,
                    res |-> validateFile(config, fs, last.res.resolvedPath, options)]
  /\ UNCHANGED <<config, validator, securityEvents, fs, request, last, results, calls,
                 mutations, toolCall, served, configCall, serverVars>>

Next == ValidateRequest \/ ValidateProbe \/ ValidateFile

Spec == Init /\ [][Next]_vars

\* The server with its tools: no request under validation, tool calls served
\* one after the other.
InitTools ==
  /\ config \in ToolConfigurations
  /\ fs = FsTools
  /\ request = NotAString
  /\ Constructed

\* One tool call served, with the outcome o of its handler.
Serve(tool, args, o) ==
  /\ served' = served + 1
  /\ fs' = o.fs
  /\ securityEvents' = pushEvents(securityEvents, o.events)
  /\ calls' = calls + o.made
  /\ last' = o.last
  /\ mutations' = mutations \o o.touched
  /\ toolCall' = [tool |-> tool, args |-> args, response |-> o.response]
  /\ UNCHANGED <<config, validator, request, results, fileCall, configCall, serverVars>>

WriteFile ==
  /\ served < MaxToolCalls
  /\ \E args \in WriteRequests :
       \E o \in {WriteFileTool_handler(validator, config, fs, args, calls + 1)} :
         Serve("write_file", args, o)

DeleteFile ==
  /\ served < MaxToolCalls
  /\ \E args \in DeleteRequests :
       \E o \in {DeleteFileTool_handler(validator, config, fs, args, calls + 1, last)} :
         Serve("delete_file", args, o)

CopyFile ==
  /\ served < MaxToolCalls
  /\ \E args \in CopyRequests :
       \E o \in {CopyFileTool_handler(validator, config, fs, args, calls + 1, last)} :
         Serve("copy_file", args, o)

NextTools == WriteFile \/ DeleteFile \/ CopyFile

SpecTools == InitTools /\ [][NextTools]_vars

\* The server with a file request and a configuration that may be reloaded:
\* the validator stays the one built at construction, validateFile reads the
\* configuration current at its call.
InitConfig ==
  /\ config \in ToolConfigurations
  /\ fs = FsFiles
  /\ request \in FileRequests
  /\ Constructed

\* ConfigurationManager.reloadConfiguration, before the file is validated.
reloadConfiguration ==
  /\ ~configCall.called /\ ~fileCall.called
  /\ \E sources \in ConfigurationSources :
       \E res \in {loadConfiguration(sources.configFile, sources.env)} :
         /\ config' = res.config
         /\ configCall' = [called |-> TRUE, configFile |-> sources.configFile,
                           env |-> sources.env, res |-> res]
  /\ UNCHANGED <<validator, securityEvents, fs, request, last, results, calls, fileCall,
                 mutations, toolCall, served, serverVars>>

NextConfig == reloadConfiguration \/ ValidateRequest \/ ValidateFile

SpecConfig == InitConfig /\ [][NextConfig]_vars

\* The server with tool calls in flight side by side. A handler runs without
\* a pause up to its first await and between two awaits. copy_file on a file
\* validates both paths, checks the source and decides the collision, then
\* waits; the copy is made when it goes on. A call for a tool the server
\* does not know throws, and the catch block of the CallTool handler runs.
InitServer ==
  /\ config \in ToolConfigurations
  /\ fs = FsTools
  /\ request = NotAString
  /\ Constructed

\* copy_file from its start to the await of handleCollision. The requests
\* are not recursive: a directory as the source ends at step 6.
StartCopy ==
  /\ phase = "running"
  /\ served < MaxServerCalls
  /\ \E args \in ServerCopyRequests :
       \E checks \in {CopyFileTool_checks(validator, config, fs, args, calls + 1, last)} :
         /\ served' = served + 1
         /\ securityEvents' = pushEvents(securityEvents, checks.events)
         /\ calls' = calls + checks.made
         /\ last' = checks.last
         /\ IF checks.ok
            THEN /\ inflight' = inflight \cup
                      {[id |-> served + 1, args |-> args, sourcePath |-> checks.sourcePath,
                        collision |-> handleCollision(fs, checks.destPath, args, CopyResult)]}
                 /\ toolCall' = toolCall
            ELSE /\ inflight' = inflight
                 /\ toolCall' = [tool |-> "copy_file", args |-> args,
                                 response |-> createErrorResponse(checks.errorType)]
  /\ UNCHANGED <<config, validator, fs, request, results, fileCall, mutations, configCall,
                 reported, phase>>

\* copy_file from its await of handleCollision to its response.
FinishCopy ==
  /\ phase # "exited"
  /\ \E c \in inflight :
       \E done \in {copyFileTo(fs, c.sourcePath, c.collision)} :
         /\ fs' = done.fs
         /\ mutations' = mutations \o done.touched
         /\ toolCall' = [tool |-> "copy_file", args |-> c.args,
                         response |-> createSuccessResponse(done.result)]
         /\ inflight' = inflight \ {c}
  /\ UNCHANGED <<config, validator, securityEvents, request, last, results, calls, fileCall,
                 served, configCall, reported, phase>>

\* A call for an unknown tool: the switch throws, the catch block prints the
\* log and clears it, and the error goes on to the framework.
CallUnknownTool ==
  /\ phase = "running"
  /\ served < MaxServerCalls
  /\ served' = served + 1
  /\ \E caught \in {CallToolCatch(securityEvents, reported)} :
       /\ securityEvents' = caught.log
       /\ reported' = caught.reported
  /\ toolCall' = [tool |-> "unknown", args |-> <<>>, response |-> createErrorResponse("system")]
  /\ UNCHANGED <<config, validator, fs, request, last, results, calls, fileCall, mutations,
                 configCall, inflight, phase>>

\* The shutdown handler up to its await of server.close(): the log printed.
shutdown ==
  /\ phase = "running"
  /\ reported' = ShutdownReport(securityEvents, reported)
  /\ phase' = "closing"
  /\ UNCHANGED <<config, validator, securityEvents, fs, request, last, results, calls,
                 fileCall, mutations, toolCall, served, configCall, inflight>>

\* process.exit after server.close(): no handler runs any more.
Exit ==
  /\ phase = "closing"
  /\ phase' = "exited"
  /\ UNCHANGED <<config, validator, securityEvents, fs, request, last, results, calls,
                 fileCall, mutations, toolCall, served, configCall, inflight, reported>>

NextServer == StartCopy \/ FinishCopy \/ CallUnknownTool \/ shutdown \/ Exit

SpecServer == InitServer /\ [][NextServer]_vars


\* ------------------------------------------------------------------------
\* Vocabulary of the properties
\* ------------------------------------------------------------------------
Level == validator.securityLevel

\* The input passes the input-sanity gate.
IsPathString(p) == p # NotAString /\ Len(p) > 0 /\ ~IsBlank(p)

HasLiteralTraversal(p) ==
  Contains(p, <<".", ".", "/">>) \/ Contains(p, <<".", ".", "\\">>)

\* path equals dir or lies below it across a separator boundary.
ContainedIn(path, dir) == IsSegPrefix(PathSegs(dir), PathSegs(path))

InAllowedDirectory(path) ==
  \E i \in 1..Len(validator.allowedPrefixes) : ContainedIn(path, validator.allowedPrefixes[i])

\* path shares a string prefix with an allowed directory and lies in none.
SharesPrefixOnly(path) ==
  /\ \E i \in 1..Len(validator.allowedPrefixes) : StartsWith(path, validator.allowedPrefixes[i])
  /\ ~InAllowedDirectory(path)

Rejected(r) == ~r.isValid
SecurityViolation(r) == ~r.isValid /\ r.securityViolation = Some(TRUE)

TraversalError == Some("Path traversal attempt detected")
EncodedError == Some("Encoded path traversal attempt detected")
ContainmentError == Some("Path outside allowed directories")
SymlinkError == Some("Symlink points outside allowed directories")
GateErrors == {TraversalError, EncodedError, ContainmentError, SymlinkError}

\* ------------------------------------------------------------------------
\* C1: at every level, whatever the allowed directories and the filesystem,
\* an input that contains a literal "../" or "..\" is rejected as a security
\* violation.
\* ------------------------------------------------------------------------
C1_LiteralTraversalRejected ==
  (last.called /\ HasLiteralTraversal(last.input)) => SecurityViolation(last.res)

\* A traversal input whose target exists was validated under permissive level.
C1_Witness ==
  /\ last.called
  /\ HasLiteralTraversal(last.input)
  /\ Level = PERMISSIVE
  /\ existsSync(fs, resolveAbsolutePath(last.input))
  /\ SecurityViolation(last.res)

\* ------------------------------------------------------------------------
\* C2: a valid result carries a path that equals an allowed directory or
\* lies below one across a separator boundary; a path that only shares a
\* string prefix with an allowed directory is rejected as a security
\* violation.
\* ------------------------------------------------------------------------
C2_SeparatorBoundedContainment ==
  last.called =>
    /\ last.res.isValid => InAllowedDirectory(last.res.resolvedPath)
    /\ (IsPathString(last.input) /\ SharesPrefixOnly(resolveAbsolutePath(last.input)))
         => SecurityViolation(last.res)

\* A path sharing only a string prefix with an allowed directory was
\* rejected by the containment gate.
C2_Witness ==
  /\ last.called
  /\ IsPathString(last.input)
  /\ SharesPrefixOnly(resolveAbsolutePath(last.input))
  /\ last.res.error = ContainmentError
  /\ SecurityViolation(last.res)

\* ------------------------------------------------------------------------
\* C3: an input that percent-decodes to a different string matching a raw
\* traversal pattern is rejected as a security violation.
\* ------------------------------------------------------------------------
DecodesToTraversal(p) ==
  /\ IsPathString(p)
  /\ LET d == decodeURIComponent(p)
     IN d.ok /\ d.val # p /\ checkTraversalAttempts(validator, d.val)

\* The claim as stated: at every security level.
C3_Original ==
  (last.called /\ DecodesToTraversal(last.input)) => SecurityViolation(last.res)

\* The claim as amended: under strict and moderate level.
C3_DecodedTraversalRejected ==
  (last.called /\ Level # PERMISSIVE /\ DecodesToTraversal(last.input))
    => SecurityViolation(last.res)

\* A partly encoded marker, caught by no literal pattern, was rejected
\* because of its decoded form.
C3_Witness ==
  /\ last.called
  /\ Level = MODERATE
  /\ DecodesToTraversal(last.input)
  /\ ~hasBaseEncoded(last.input)
  /\ ~hasStrictEncoded(last.input)
  /\ last.res.error = EncodedError

\* ------------------------------------------------------------------------
\* C4: under strict level an input whose canonical path exists and whose
\* real target differs from it and lies in no allowed directory is rejected
\* as a security violation; under the other levels the symlink gate rejects
\* nothing.
\* ------------------------------------------------------------------------
EscapesBySymlink(p) ==
  /\ IsPathString(p)
  /\ LET canonical == resolveAbsolutePath(p)
     IN /\ existsSync(fs, canonical)
        /\ realpathSync(fs, canonical).val # canonical
        /\ ~InAllowedDirectory(realpathSync(fs, canonical).val)

C4_SymlinkGate ==
  last.called =>
    /\ (Level = STRICT /\ EscapesBySymlink(last.input)) => SecurityViolation(last.res)
    /\ Level # STRICT => (last.res.error # SymlinkError /\ last.fsCalls = <<>>)

\* The symlink gate rejected a path that passes every earlier gate.
C4_Witness ==
  /\ last.called
  /\ Level = STRICT
  /\ EscapesBySymlink(last.input)
  /\ last.res.error = SymlinkError

\* ------------------------------------------------------------------------
\* C5: a call rejected at the traversal, encoded-attack, containment or
\* symlink gate returns a security violation and appends exactly one event;
\* a call rejected at the input-sanity gate returns a plain validation error
\* and appends nothing; a successful call appends nothing.
\* ------------------------------------------------------------------------
IsCall == calls' = calls + 1

AppendsOneEvent ==
  /\ Len(securityEvents') = Len(securityEvents) + 1
  /\ SubSeq(securityEvents', 1, Len(securityEvents)) = securityEvents
  /\ securityEvents'[Len(securityEvents')].attemptedPath = last'.input

GateOutcome(logged) ==
  IF last'.res.isValid THEN securityEvents' = securityEvents
  ELSE IF last'.res.error \in GateErrors
  THEN /\ SecurityViolation(last'.res)
       /\ IF logged THEN AppendsOneEvent ELSE securityEvents' = securityEvents
  ELSE /\ last'.res.securityViolation # Some(TRUE)
       /\ securityEvents' = securityEvents

\* The claim as stated: at every security level.
C5_Original == [][IsCall => GateOutcome(TRUE)]_vars

\* The claim as amended: one event under strict and moderate level, none
\* under permissive level, where audit logging is off.
C5_EventPerGateRejection == [][IsCall => GateOutcome(Level # PERMISSIVE)]_vars

\* Two gate rejections under moderate level left two events in the log.
C5_Witness ==
  /\ last.called
  /\ Level = MODERATE
  /\ last.res.error = ContainmentError
  /\ Len(securityEvents) = 2
  /\ securityEvents[2].type = "unauthorized_access"

\* ------------------------------------------------------------------------
\* C6: the levels are additive. With the same allowed directories, policy
\* lists and filesystem, an input validatePath rejects under a level is
\* rejected under every stronger level, and a file validateFile rejects
\* under a level is rejected under every stronger level.
\* ------------------------------------------------------------------------
AtLevel(cfg, l) == [cfg EXCEPT !.securityLevel = l]

Stronger(l) ==
  IF l = PERMISSIVE THEN {MODERATE, STRICT}
  ELSE IF l = MODERATE THEN {STRICT}
  ELSE {}

C6_LevelsAdditive ==
  \A l \in Stronger(config.securityLevel) :
    /\ (last.called /\ Rejected(last.res)) =>
         Rejected(validatePath(createFromConfiguration(AtLevel(config, l)), fs,
                               last.input, calls).res)
    /\ (fileCall.called /\ Rejected(fileCall.res)) =>
         Rejected(validateFile(AtLevel(config, l), fs, fileCall.path, fileCall.options))

\* Under permissive level a file and then a path were rejected.
C6_Witness ==
  /\ config.securityLevel = PERMISSIVE
  /\ fileCall.called /\ Rejected(fileCall.res)
  /\ last.called /\ Rejected(last.res)

\* ------------------------------------------------------------------------
\* C7: every path on which a tool handler creates a directory, writes,
\* copies to or deletes, the backup directory of delete_file included, lies
\* in an allowed directory.
\* ------------------------------------------------------------------------
C7_MutationsInAllowedDirectories ==
  \A i \in 1..Len(mutations) : InAllowedDirectory(mutations[i].path)

\* ------------------------------------------------------------------------
\* C8: an input without traversal or encoding markers whose canonical form
\* equals an allowed directory or lies inside one is valid, at every call
\* made on it and with the same canonical path, whatever was validated in
\* between.
\* ------------------------------------------------------------------------
HasNoMarkers(p) == ~Contains(p, <<".", ".">>) /\ ~Contains(p, <<"%">>)

\* The claim, for the inputs the symlink gate has no reason to reject.
C8_ContainedInputValid ==
  (/\ IsPathString(request)
   /\ HasNoMarkers(request)
   /\ InAllowedDirectory(resolveAbsolutePath(request))
   /\ ~EscapesBySymlink(request))
    => \A i \in 1..Len(results) :
         /\ results[i].isValid
         /\ results[i].resolvedPath = results[1].resolvedPath

\* ------------------------------------------------------------------------
\* C9: a valid result carries the canonical path of its input: absolute,
\* normalized, tilde-expanded. A result rejected at the input-sanity or the
\* traversal gate carries no path; a result rejected at the encoded-attack,
\* containment or symlink gate carries the canonical path of its input.
\* ------------------------------------------------------------------------
PlainSegs(p) == SelectSeq(Segments(p), LAMBDA seg : seg # <<>> /\ seg # <<".">>)

Tildes(segs) == Len(SelectSeq(segs, LAMBDA seg : seg = <<"~">>))

\* path is absolute and normalized, and the leading "~" of the input p is not
\* left in it as a segment.
IsCanonicalPathOf(path, p) ==
  /\ isAbsolute(path)
  /\ path = <<"/">> \o JoinSegs(PlainSegs(path))
  /\ \A i \in 1..Len(Segments(path)) : Segments(path)[i] # DotDot
  /\ (p = <<"~">> \/ StartsWith(p, <<"~", "/">>))
       => Tildes(Segments(path)) = Tildes(Segments(p)) - 1

\* The claim as stated: a canonical path exactly when the result is valid.
C9_Original ==
  last.called =>
    IF last.res.isValid THEN IsCanonicalPathOf(last.res.resolvedPath, last.input)
    ELSE last.res.resolvedPath = <<>>

\* The claim as amended.
C9_CanonicalPathByGate ==
  last.called =>
    IF last.res.isValid \/ last.res.error \in {EncodedError, ContainmentError, SymlinkError}
    THEN IsCanonicalPathOf(last.res.resolvedPath, last.input)
    ELSE last.res.resolvedPath = <<>>

\* A tilde input was rejected at the containment gate, with its canonical
\* path in the result.
C9_Witness ==
  /\ last.called
  /\ StartsWith(last.input, <<"~">>)
  /\ last.res.error = ContainmentError
  /\ last.res.resolvedPath # <<>>

\* ------------------------------------------------------------------------
\* C10: validatePath evaluates its gates in the order input sanity, raw
\* traversal scan, canonicalization, encoded-attack scan, containment,
\* symlink escape, and stops at the first gate that fails: the error and the
\* kind of the appended event are those of the earliest failing gate, no
\* later gate is evaluated and, before the symlink gate, no filesystem
\* lookup is made.
\* ------------------------------------------------------------------------
GateOrder == <<"sanity", "traversal", "canonicalize", "encoded", "containment", "symlink">>

\* Gate g, evaluated on its own, rejects p.
GateFails(g, p) ==
  IF g = "sanity" THEN ~IsPathString(p)
  ELSE IF g = "traversal" THEN checkTraversalAttempts(validator, p)
  ELSE IF g = "encoded" THEN checkEncodedPathAttacks(validator, p)
  ELSE IF g = "containment"
  THEN ~isWithinAllowedDirectories(validator, resolveAbsolutePath(p))
  ELSE IF g = "symlink"
  THEN validator.strictMode /\ symlinkEscape(validator, fs, resolveAbsolutePath(p))
  ELSE FALSE

FailingGates(p) == {i \in 1..Len(GateOrder) : GateFails(GateOrder[i], p)}

ErrorsOfGate(g) ==
  IF g = "sanity" THEN {Some("Invalid path input"), Some("Empty path not allowed")}
  ELSE IF g = "traversal" THEN {TraversalError}
  ELSE IF g = "encoded" THEN {EncodedError}
  ELSE IF g = "containment" THEN {ContainmentError}
  ELSE {SymlinkError}

EventKindOfGate(g) ==
  IF g \in {"traversal", "encoded"} THEN "path_traversal" ELSE "unauthorized_access"

C10_GateOrder ==
  last.called =>
    LET failing == FailingGates(last.input)
        evaluated == IF validator.strictMode THEN GateOrder ELSE SubSeq(GateOrder, 1, 5)
    IN IF failing = {}
       THEN last.res.isValid /\ last.gates = evaluated
       ELSE LET first == CHOOSE i \in failing : \A j \in failing : i <= j
            IN /\ Rejected(last.res)
               /\ last.res.error \in ErrorsOfGate(GateOrder[first])
               /\ last.gates = SubSeq(GateOrder, 1, first)
               /\ first < Len(GateOrder) => last.fsCalls = <<>>
               /\ (first > 1 /\ validator.enableAuditLogging) =>
                    /\ securityEvents # <<>>
                    /\ securityEvents[Len(securityEvents)].attemptedPath = last.input
                    /\ securityEvents[Len(securityEvents)].type
                         = EventKindOfGate(GateOrder[first])

\* An input that fails the encoded-attack gate and the containment gate was
\* rejected by the former, with its event in the log.
C10_Witness ==
  /\ last.called
  /\ {4, 5} \subseteq FailingGates(last.input)
  /\ last.res.error = EncodedError
  /\ securityEvents # <<>>
  /\ securityEvents[Len(securityEvents)].type = "path_traversal"

\* ------------------------------------------------------------------------
\* C11: canonicalization never depends on the working directory of the
\* process: "~" and "~/..." expand to the home directory, every relative
\* input resolves against the home directory, and an absolute input is
\* normalized by collapsing its "." segments and repeated separators.
\* ------------------------------------------------------------------------
\* The path made of the segments of base followed by those of rest, "." and
\* empty segments dropped.
Below(base, rest) == <<"/">> \o JoinSegs(PlainSegs(base) \o PlainSegs(rest))

\* The canonical form of p laid out from the home directory alone; p holds
\* no ".." segment.
HomeCanonical(p) ==
  IF p = <<"~">> THEN HomeDir
  ELSE IF StartsWith(p, <<"~", "/">>) THEN Below(HomeDir, Slice(p, 2))
  ELSE IF ~isAbsolute(p) THEN Below(HomeDir, p)
  ELSE Below(<<>>, p)

\* C11, as stated: every call that came to canonicalize its input (none with
\* a ".." segment comes that far) resolved it from the home directory. An
\* input "~//x" is resolved as resolve(home, "/x"), which is "/x".
C11_CanonicalizationFromHome ==
  (last.called /\ last.res.resolvedPath # <<>>)
    => last.res.resolvedPath = HomeCanonical(last.input)

\* ------------------------------------------------------------------------
\* Vocabulary of the validateFile properties
\* ------------------------------------------------------------------------
FileExtension(p) == ToLowerCase(extname(p))

\* The lists in force at a call: the override when one is passed, else the
\* policy's.
EffectiveBlockedExtensions == OrElse(fileCall.options.blockedExtensions, config.blockedExtensions)
EffectiveAllowedExtensions == OrElse(fileCall.options.allowedExtensions, config.allowedExtensions)

SizeGateOn == fileCall.options.checkSize # Some(FALSE)
ExtensionGateOn == fileCall.options.checkExtension # Some(FALSE)
MimeGateOn == fileCall.options.checkMimeType # Some(FALSE)

DangerousError == Some("Dangerous file extension blocked in strict mode")

\* ------------------------------------------------------------------------
\* C12: under strict level, validateFile rejects every file whose extension
\* is in the dangerous-extension set, even when the effective allow-list is
\* ["*"] or names that extension.
\* ------------------------------------------------------------------------
\* The claim as stated, whatever the override flags.
C12_Original ==
  (/\ fileCall.called
   /\ config.securityLevel = STRICT
   /\ FileExtension(fileCall.path) \in DANGEROUS_EXTENSIONS)
    => ~fileCall.res.isValid

\* C12, as amended: under strict level, validateFile called with the
\* extension gate not skipped accepts no file whose extension is in the
\* dangerous-extension set, whatever the effective allow-list.
C12_DangerousRejectedUnderStrict ==
  (/\ fileCall.called
   /\ config.securityLevel = STRICT
   /\ ExtensionGateOn
   /\ FileExtension(fileCall.path) \in DANGEROUS_EXTENSIONS)
    => ~fileCall.res.isValid

\* Under strict level a file whose extension the allow-list names was
\* rejected for its dangerous extension.
C12_Witness ==
  /\ fileCall.called
  /\ config.securityLevel = STRICT
  /\ ExtensionGateOn
  /\ ~Includes(EffectiveAllowedExtensions, <<"*">>)
  /\ Includes(EffectiveAllowedExtensions, FileExtension(fileCall.path))
  /\ fileCall.res.error = DangerousError

\* ------------------------------------------------------------------------
\* C13: when the target exists and the size gate is not skipped, validateFile
\* passes the size gate exactly for the files whose size is at most the
\* effective maximum: the override whenever one is supplied, whatever its
\* value, otherwise the policy maximum.
\* ------------------------------------------------------------------------
TooLargeError == Some("File too large")

\* The maximum in force at the call: the override when supplied, else the
\* policy's, where that converts to bytes.
EffectiveMaxSize ==
  IF fileCall.options.maxSize # Undefined THEN CHOOSE n \in fileCall.options.maxSize : TRUE
  ELSE getMaxFileSizeBytes(config).val

\* C13, as stated: the size gate rejects exactly the existing files above the
\* effective maximum. An override of 0 is not taken as an override.
C13_SizeGateExact ==
  (/\ fileCall.called
   /\ existsSync(fs, fileCall.path)
   /\ SizeGateOn
   /\ fileCall.options.maxSize # Undefined \/ getMaxFileSizeBytes(config).ok)
    => /\ ~fileCall.res.threw
       /\ fileCall.res.error = TooLargeError <=> statSize(fs, fileCall.path) > EffectiveMaxSize

\* ------------------------------------------------------------------------
\* C14: with the extension gate enabled, validateFile rejects every file
\* whose extension is in the effective blocked list, and otherwise every file
\* whose extension is not in the effective allowed list unless that list
\* holds the wildcard; names without an extension included.
\* ------------------------------------------------------------------------
\* The extension is blocked, or no entry of the allowed list admits it.
ExcludedByLists(extension) ==
  \/ Includes(EffectiveBlockedExtensions, extension)
  \/ /\ ~Includes(EffectiveAllowedExtensions, <<"*">>)
     /\ ~Includes(EffectiveAllowedExtensions, extension)

\* C14, as stated: with the extension gate on, no file that the effective
\* lists exclude is accepted. A name without an extension skips the gate.
C14_ExtensionLists ==
  (/\ fileCall.called
   /\ ExtensionGateOn
   /\ ExcludedByLists(FileExtension(fileCall.path)))
    => ~fileCall.res.isValid

\* ------------------------------------------------------------------------
\* C15: when no override lists are supplied, validateFile applies the
\* block-then-allow structure to the policy's own MIME sets and category
\* sets: a file whose MIME type (category) is in the policy's blocked set, or
\* is missing from the policy's non-empty allowed set, is rejected; an empty
\* allowed set restricts nothing.
\* ------------------------------------------------------------------------
FileMimeType(p) == getMimeType(FileExtension(p))

FileCategoryOf(p) == getFileCategory(FileExtension(p), FileMimeType(p))

\* x is in the blocked list, or the allowed list is not empty and lacks x.
ExcludedBy(blocked, allowed, x) ==
  Includes(blocked, x) \/ (Len(allowed) > 0 /\ ~Includes(allowed, x))

NoMimeOrCategoryOverride ==
  /\ fileCall.options.allowedMimeTypes = Undefined
  /\ fileCall.options.blockedMimeTypes = Undefined
  /\ fileCall.options.allowedCategories = Undefined
  /\ fileCall.options.blockedCategories = Undefined

\* C15, as stated: with no override lists, no file that the policy's MIME
\* sets (the MIME gate on) or category sets exclude is accepted. The gates
\* read the override lists only.
C15_PolicyMimeAndCategory ==
  (fileCall.called /\ NoMimeOrCategoryOverride)
    => /\ (/\ MimeGateOn
           /\ ExcludedBy(config.blockedMimeTypes, config.allowedMimeTypes,
                         FileMimeType(fileCall.path)))
            => ~fileCall.res.isValid
       /\ ExcludedBy(config.blockedFileCategories, config.allowedFileCategories,
                     FileCategoryOf(fileCall.path))
            => ~fileCall.res.isValid

\* ------------------------------------------------------------------------
\* C16: each of the four validateFile gates (size, extension, MIME type,
\* category) is skippable by an override flag: with a gate's flag set to
\* skip, no file is rejected by that gate, while the remaining gates apply
\* and the first failing gate in the order size, extension, MIME type,
\* category determines the returned error.
\* ------------------------------------------------------------------------
FileGateOrder == <<"size", "extension", "mime", "category">>

ExtensionErrors ==
  {Some("File extension blocked"), Some("File extension not allowed"), DangerousError}
MimeErrors == {Some("MIME type blocked"), Some("MIME type not allowed")}
CategoryErrors == {Some("File category blocked"), Some("File category not allowed")}

\* The error of gate g evaluated on its own on the file of the call,
\* Undefined when it passes.
FileGateError(g) ==
  IF g = "size"
  THEN IF sizeGate(config, fileCall.options,
                   IF existsSync(fs, fileCall.path) THEN Some(statSize(fs, fileCall.path))
                   ELSE Undefined) = "fail"
       THEN TooLargeError ELSE Undefined
  ELSE IF g = "extension"
  THEN extensionGate(config, fileCall.options, FileExtension(fileCall.path))
  ELSE IF g = "mime" THEN mimeTypeGate(fileCall.options, FileMimeType(fileCall.path))
  ELSE categoryGate(fileCall.options, FileCategoryOf(fileCall.path))

FailingFileGates == {i \in 1..Len(FileGateOrder) : FileGateError(FileGateOrder[i]) # Undefined}

\* The result is that of the first failing gate, valid when none fails.
FirstFailureWins ==
  IF FailingFileGates = {} THEN fileCall.res.isValid
  ELSE /\ ~fileCall.res.isValid
       /\ fileCall.res.error =
            FileGateError(FileGateOrder[CHOOSE i \in FailingFileGates :
                                          \A j \in FailingFileGates : i <= j])

\* The claim as stated, for the category gate: a call with every skip flag
\* set to skip has all four gates skipped, and its file is accepted.
C16_Original ==
  (/\ fileCall.called /\ ~fileCall.res.threw
   /\ ~SizeGateOn /\ ~ExtensionGateOn /\ ~MimeGateOn)
    => fileCall.res.isValid

\* C16, as amended: the size, extension and MIME type gates are each
\* skippable by an override flag, and with a gate's flag set to skip no file
\* is rejected by that gate; the category gate has no flag and applies to
\* every call; the first failing gate in the order size, extension, MIME
\* type, category determines the returned error.
C16_SkipFlagsAndOrder ==
  (fileCall.called /\ ~fileCall.res.threw)
    => /\ ~SizeGateOn => fileCall.res.error # TooLargeError
       /\ ~ExtensionGateOn => fileCall.res.error \notin ExtensionErrors
       /\ ~MimeGateOn => fileCall.res.error \notin MimeErrors
       /\ FirstFailureWins

\* The extension gate was skipped for a file whose extension is blocked, and
\* the category gate rejected the file.
C16_Witness ==
  /\ fileCall.called
  /\ ~ExtensionGateOn
  /\ Includes(EffectiveBlockedExtensions, FileExtension(fileCall.path))
  /\ fileCall.res.error \in CategoryErrors

\* ------------------------------------------------------------------------
\* C17: validateFile never propagates an exception: for every path, every
\* override set and every resolved configuration, one resolved with recorded
\* errors included, it returns a result whose file info (extension, MIME
\* type, category) is populated, whether the file passes or fails.
\* ------------------------------------------------------------------------
\* C17, as stated. Under a configuration whose size string does not convert,
\* the size gate throws on an existing file.
C17_AlwaysReturnsFileInfo ==
  fileCall.called
    => /\ ~fileCall.res.threw
       /\ fileCall.res.fileInfo # Undefined
       /\ \A info \in fileCall.res.fileInfo :
            /\ info.extension = FileExtension(fileCall.path)
            /\ info.mimeType = FileMimeType(fileCall.path)
            /\ info.category = FileCategoryOf(fileCall.path)

\* ------------------------------------------------------------------------
\* Vocabulary of the configuration properties
\* ------------------------------------------------------------------------
ConfigFields == DOMAIN DefaultConfiguration

\* The environment variable of each field.
EnvVar ==
  [allowedDirectories |-> "MCP_FS_ALLOWED_DIRS", securityLevel |-> "MCP_FS_SECURITY_LEVEL",
   maxFileSize |-> "MCP_FS_MAX_FILE_SIZE", allowedExtensions |-> "MCP_FS_ALLOWED_EXTENSIONS",
   blockedExtensions |-> "MCP_FS_BLOCKED_EXTENSIONS",
   allowedMimeTypes |-> "MCP_FS_ALLOWED_MIME_TYPES",
   blockedMimeTypes |-> "MCP_FS_BLOCKED_MIME_TYPES",
   allowedFileCategories |-> "MCP_FS_ALLOWED_FILE_CATEGORIES",
   blockedFileCategories |-> "MCP_FS_BLOCKED_FILE_CATEGORIES"]

\* What the environment of the call supplies for field: nothing when the
\* variable is unset or empty, else its value, a list split at the commas.
EnvSupplies(field) ==
  LET v == configCall.env[EnvVar[field]]
  IN IF v = Undefined THEN Undefined
     ELSE IF field = "securityLevel" THEN (IF v = Some("") THEN Undefined ELSE v)
     ELSE IF v = Some(<<>>) THEN Undefined
     ELSE IF field = "maxFileSize" THEN v
     ELSE Some(splitList(CHOOSE s \in v : TRUE))

\* What the configuration file of the call supplies for field.
FileSupplies(field) ==
  IF configCall.configFile = Undefined THEN Undefined
  ELSE (CHOOSE c \in configCall.configFile : TRUE)[field]

\* A supplied value is valid for its field: a level of the enum, a size
\* string of the grammar; the lists here are lists of strings.
ValidFor(field, supplied) ==
  \A v \in supplied :
    /\ field = "securityLevel" => v \in SecurityLevel
    /\ field = "maxFileSize" => isValidFileSize(v)

\* The value of a field as the resolved configuration holds it: allowed
\* directories are expanded.
Resolved(field, v) ==
  IF field = "allowedDirectories" THEN [i \in 1..Len(v) |-> expandAllowedDirectory(v[i])]
  ELSE v

\* The source of highest precedence that supplies a valid value for field,
\* with that value. No command line argument is read, so none supplies.
Winner(field) ==
  IF EnvSupplies(field) # Undefined /\ ValidFor(field, EnvSupplies(field))
  THEN [source |-> ConfigSource.ENVIRONMENT, value |-> CHOOSE v \in EnvSupplies(field) : TRUE]
  ELSE IF FileSupplies(field) # Undefined /\ ValidFor(field, FileSupplies(field))
  THEN [source |-> ConfigSource.CONFIG_FILE, value |-> CHOOSE v \in FileSupplies(field) : TRUE]
  ELSE [source |-> ConfigSource.DEFAULT, value |-> DefaultConfiguration[field]]

\* ------------------------------------------------------------------------
\* C18: for every configuration field, the resolved value is the one
\* supplied by the highest-precedence source that supplies a valid value for
\* it (command line > environment > configuration file > defaults), and the
\* source map records exactly that source for the field.
\* ------------------------------------------------------------------------
\* C18, as stated. An invalid value of the file or of the environment's size
\* variable is merged and recorded as the field's source.
C18_HighestValidSourceWins ==
  configCall.called
    => \A field \in ConfigFields :
         /\ configCall.res.sources[field] = Winner(field).source
         /\ configCall.res.config[field] = Resolved(field, Winner(field).value)

\* ------------------------------------------------------------------------
\* C19: the resolver always returns a usable policy: every field whose
\* supplied value is invalid (an unknown security level, a size string
\* outside the grammar), from whichever source, is recorded as an error and
\* replaced by its default, so the returned security level is one of strict,
\* moderate, permissive and the returned maximum file size converts to bytes.
\* ------------------------------------------------------------------------
\* Some source of the call supplies an invalid value for field.
InvalidSupplied(field) ==
  ~ValidFor(field, EnvSupplies(field)) \/ ~ValidFor(field, FileSupplies(field))

\* C19, as stated. An invalid level of the file and an invalid size string
\* of either source are recorded and kept in the returned configuration.
C19_UsablePolicy ==
  configCall.called
    => /\ configCall.res.config.securityLevel \in SecurityLevel
       /\ getMaxFileSizeBytes(configCall.res.config).ok
       /\ \A field \in ConfigFields :
            InvalidSupplied(field) => configCall.res.errors # <<>>

\* ------------------------------------------------------------------------
\* C20: every allowed directory in a resolved policy is canonical: absolute,
\* normalized and tilde-expanded; "~/..." entries are expanded against the
\* home directory and relative entries are resolved against the home
\* directory, so the allowed directories the resolver returns are the strings
\* the path validator compares against.
\* ------------------------------------------------------------------------
\* The allowed directories as the winning source wrote them.
SuppliedDirectories == Winner("allowedDirectories").value

\* C20, as stated: each returned directory is the canonical form, laid out
\* from the home directory, of the entry supplied, and is the prefix a
\* PathValidator built on it keeps. A relative entry and a lone "~" are
\* resolved against the working directory, and "~/a/" keeps its last
\* separator.
C20_AllowedDirectoriesCanonical ==
  configCall.called
    => LET dirs == configCall.res.config.allowedDirectories
       IN /\ Len(dirs) = Len(SuppliedDirectories)
          /\ \A i \in 1..Len(dirs) :
               /\ dirs[i] = HomeCanonical(SuppliedDirectories[i])
               /\ dirs[i] = resolveAbsolutePath(dirs[i])

\* ------------------------------------------------------------------------
\* C30. A validator built by createWithDirectories(dirs, level) returns for
\* every input the decision of the validator built by
\* createFromConfiguration from a configuration with that level and those
\* directories.
\* ------------------------------------------------------------------------
\* The result the validator of createWithDirectories returns for the input
\* of the last call, built from the directories and the level of the
\* configuration the server's validator was built from.
ResultWithDirectories ==
  validatePath(createWithDirectories(config.allowedDirectories, config.securityLevel),
               fs, last.input, calls).res

\* C30, as stated: the last call's result is the one the validator of
\* createWithDirectories returns. createWithDirectories does not hand the
\* level to the constructor, which then scans with the strict patterns.
C30_SameDecisionAsFromConfiguration ==
  last.called => ResultWithDirectories = last.res

\* ------------------------------------------------------------------------
\* C29. Under strict level every admitted path refers, once the symbolic
\* links on it are resolved, to a location inside an allowed directory; a
\* path that does not exist yet and whose parent directory is a link to a
\* place outside the allowed directories is no exception.
\* ------------------------------------------------------------------------
\* The location the segments segs name from the directory cur: links are
\* followed as far as the entries exist, the missing rest is kept as written.
RECURSIVE LocationFrom(_, _, _, _)
LocationFrom(f, segs, cur, fuel) ==
  IF segs = <<>> THEN cur
  ELSE LET next == Child(cur, Head(segs))
           rest == Tail(segs)
       IN IF next \in DOMAIN f /\ f[next].kind = "link" /\ fuel > 0
          THEN LocationFrom(f, PathSegs(f[next].target) \o rest, <<"/">>, fuel - 1)
          ELSE LocationFrom(f, rest, next, fuel)

\* The location a write or a directory creation at path p reaches.
Location(f, p) == LocationFrom(f, PathSegs(p), <<"/">>, Cardinality(DOMAIN f))

\* C29, as stated: under strict level the location of an admitted path lies in
\* an allowed directory. The symlink gate runs only on a path that exists: a
\* missing path below a link to an outside directory is admitted.
C29_AdmittedLocationInAllowedDirectory ==
  (last.called /\ Level = STRICT /\ last.res.isValid)
    => InAllowedDirectory(Location(fs, last.res.resolvedPath))

\* ------------------------------------------------------------------------
\* C21. A reload is one atomic switch of the policy all validation decides
\* against: every validatePath and validateFile call decides against the
\* configuration before the reload or against the reloaded one, never
\* against a mixture, and every call that starts after reloadConfiguration
\* returned decides against the reloaded configuration.
\* ------------------------------------------------------------------------
\* The step is a validateFile call.
IsFileCall == ~fileCall.called /\ fileCall'.called

\* The result validatePath returns for the input of the call of this step
\* from a validator that holds the current configuration.
PathResultUnderCurrentPolicy ==
  validatePath(createFromConfiguration(config), fs, last'.input, calls').res

\* C21, as stated: a call made after the reload decides against the reloaded
\* configuration. The server's validator is built once, at construction, and
\* keeps the directories and the level of the configuration it was built from.
C21_CallsAfterReloadUseReloadedPolicy ==
  [][/\ (configCall.called /\ IsCall) => last'.res = PathResultUnderCurrentPolicy
     /\ (configCall.called /\ IsFileCall)
          => fileCall'.res = validateFile(config, fs, fileCall'.path, fileCall'.options)]_vars

\* ------------------------------------------------------------------------
\* Vocabulary of the delete_file properties
\* ------------------------------------------------------------------------
\* The step serves a delete_file call.
DeleteStep == served' = served + 1 /\ toolCall'.tool = "delete_file"

\* No entry of the filesystem is removed in the step.
NothingRemoved == \A p \in DOMAIN fs : p \in DOMAIN fs'

\* The sizes of the named paths that exist, added up.
RECURSIVE NamedSize(_, _)
NamedSize(f, paths) ==
  IF paths = <<>> THEN 0
  ELSE (IF IsPathString(Head(paths)) /\ resolveAbsolutePath(Head(paths)) \in DOMAIN f
        THEN f[resolveAbsolutePath(Head(paths))].size ELSE 0)
       + NamedSize(f, Tail(paths))

\* The confirmation strategy of the request does not approve it.
NotApproved(f, args) ==
  \/ args.confirmationStrategy = PROMPT /\ ~args.force
  \/ /\ args.confirmationStrategy = SAFE_MODE
     /\ ~args.force
     /\ \/ NamedSize(f, args.path) > getMaxFileSizeBytes(config).val
        \/ Len(args.path) > 10

IsDryRun(args) == args.dryRun \/ args.confirmationStrategy = DRY_RUN

C25_DryRunLeavesFilesystemUnchanged ==
  [][(DeleteStep /\ IsDryRun(toolCall'.args)) => (fs' = fs /\ mutations' = mutations)]_vars

\* A dry run by the strategy alone, of a directory, with recursive and
\* createBackup set, reported the deletion and touched nothing.
C25_Witness ==
  /\ toolCall.tool = "delete_file"
  /\ toolCall.args.confirmationStrategy = DRY_RUN
  /\ ~toolCall.args.dryRun
  /\ toolCall.args.createBackup
  /\ toolCall.args.recursive
  /\ ~toolCall.response.isError
  /\ \E result \in toolCall.response.result : result.dryRun /\ result.itemsDeleted = 1
  /\ fs = FsTools
  /\ mutations = <<>>

\* ------------------------------------------------------------------------
\* C26. With createBackup=true outside a dry run, every deletion is preceded
\* by a successful backup of the item deleted.
\* ------------------------------------------------------------------------
\* The step left a backup of the entry p: a new entry named after p, of its
\* kind and size.
BackedUp(p) ==
  \E q \in DOMAIN fs' \ DOMAIN fs :
    /\ StartsWith(basename(q), basename(p) \o <<".", "b", "a", "c", "k", "u", "p", ".">>)
    /\ fs'[q].kind = fs[p].kind
    /\ fs'[q].size = fs[p].size

\* The named path p was removed in the step.
Removed(p) == IsPathString(p) /\ resolveAbsolutePath(p) \in DOMAIN fs \ DOMAIN fs'

\* C26, as stated: each named item the step removed has its backup. An
\* exception in createBackup is caught and answered by null, and the loop
\* goes on to delete the item.
C26_DeletionPrecededByBackup ==
  [][(DeleteStep /\ toolCall'.args.createBackup /\ ~IsDryRun(toolCall'.args))
       => \A i \in 1..Len(toolCall'.args.path) :
            Removed(toolCall'.args.path[i])
              => BackedUp(resolveAbsolutePath(toolCall'.args.path[i]))]_vars

\* ------------------------------------------------------------------------
\* Vocabulary of the event-log properties
\* ------------------------------------------------------------------------
\* The sequence a begins the sequence b.
IsPrefix(a, b) == Len(a) <= Len(b) /\ SubSeq(b, 1, Len(a)) = a

\* The events of the log, by the validatePath calls that logged them: the
\* timestamp of an event is the number of its call.
InCallOrder(log) == \A i, j \in 1..Len(log) : i < j => log[i].timestamp < log[j].timestamp

\* The step runs the catch block of the CallTool handler.
CatchStep == served' = served + 1 /\ toolCall'.tool = "unknown"

\* The step runs the shutdown handler, which reads the log.
ShutdownStep == phase = "running" /\ phase' = "closing"

\* ------------------------------------------------------------------------
\* C22. The event log of a validator is append-only between clears: an event
\* once recorded keeps its position and its field values, the events stand
\* in the order of their validatePath calls, reading the log through
\* getSecurityEvents does not change it, and only clearSecurityEvents
\* removes events.
\* ------------------------------------------------------------------------
C22_LogAppendOnlyBetweenClears ==
  [][/\ \/ IsPrefix(securityEvents, securityEvents')
        \/ CatchStep /\ securityEvents # <<>> /\ securityEvents' = <<>>
     /\ InCallOrder(securityEvents')
     /\ ShutdownStep => securityEvents' = securityEvents
     /\ (CatchStep /\ securityEvents = <<>>) => securityEvents' = securityEvents]_vars

\* Two calls logged their events, the second behind the first; the catch
\* block of a third call printed the two in that order and cleared the log.
C22_Witness ==
  /\ Len(reported) = 1
  /\ Len(reported[1]) = 2
  /\ reported[1][1].timestamp < reported[1][2].timestamp
  /\ reported[1][1].type = "unauthorized_access"
  /\ reported[1][2].type = "path_traversal"
  /\ securityEvents = <<>>
  /\ toolCall.tool = "unknown"

\* ------------------------------------------------------------------------
\* C23. No security event is lost when tool calls run side by side on the
\* shared validator: under every interleaving of tool calls, of failing calls
\* that run the server's print-then-clear step, and of the shutdown, an
\* event once appended is still in the log or was printed by the server
\* before the log was cleared.
\* ------------------------------------------------------------------------
\* The events of the log, and the events of the printed batches.
Logged(log) == {log[i] : i \in 1..Len(log)}

Printed(batches) == UNION {Logged(batches[i]) : i \in 1..Len(batches)}

C23_NoEventLost ==
  [][/\ Logged(securityEvents) \subseteq Logged(securityEvents') \cup Printed(reported')
     /\ IsPrefix(reported, reported')
     /\ Len(securityEvents') < Len(securityEvents)
          => (reported' = Append(reported, securityEvents) /\ securityEvents' = <<>>)]_vars

\* While a copy_file call waited at its await, another call logged an event
\* and a failing call printed and cleared the log; the waiting call is still
\* in flight.
C23_Witness ==
  /\ inflight # {}
  /\ \E c \in inflight : c.id = 1
  /\ Len(reported) = 1
  /\ Len(reported[1]) = 1
  /\ reported[1][1].timestamp > 2
  /\ securityEvents = <<>>
  /\ toolCall.tool = "unknown"

\* ------------------------------------------------------------------------
\* Vocabulary of the copy_file properties
\* ------------------------------------------------------------------------
\* The mutations the step made.
NewMutations == SubSeq(mutations', Len(mutations) + 1, Len(mutations'))

\* The paths the step copied a file to.
CopiedTo == {NewMutations[i].path : i \in {k \in 1..Len(NewMutations) : NewMutations[k].op = "copy"}}

\* The waiting copy_file call c went on and made its copy in the step.
CopyFinished(c) == c \in inflight /\ c \notin inflight'

\* ------------------------------------------------------------------------
\* C27. copy_file with the collision strategy skip, fail or rename never
\* overwrites or modifies a destination file that exists, copy_file calls
\* running side by side on one destination included.
\* ------------------------------------------------------------------------
\* C27, as stated: a copy made under one of the three strategies goes to a
\* path that did not exist when it was made. The collision is decided before
\* the await of handleCollision and the file is copied after it: a second
\* call that decided in between copies over the file the first one made.
C27_ExistingDestinationUntouched ==
  [][\A c \in inflight :
       (CopyFinished(c) /\ c.args.collisionStrategy # OVERWRITE)
         => \A p \in CopiedTo : p \notin DOMAIN fs]_vars

\* The paths the step wrote a file to or copied a file to.
FilesProduced ==
  {NewMutations[i].path : i \in {k \in 1..Len(NewMutations) : NewMutations[k].op \in {"write", "copy"}}}

\* The extension of the name passes the extension gate of the configuration:
\* not blocked, on the allow-list, not dangerous under the strict level.
SatisfiesTypePolicy(p) == extensionGate(config, NoOptions, FileExtension(p)) = Undefined

\* ------------------------------------------------------------------------
\* C28. Every file that write_file or copy_file creates or overwrites
\* satisfies the file-type policy under its destination name, files copied
\* to a different name and files of a recursive directory copy included.
\* ------------------------------------------------------------------------
\* C28, as stated. copy_file validates the source file, never the name it
\* copies to, and validates no file of a directory it copies.
C28_ProducedFilesSatisfyTypePolicy ==
  [][(served' = served + 1 /\ toolCall'.tool \in {"write_file", "copy_file"})
       => \A p \in FilesProduced : SatisfiesTypePolicy(p)]_vars


====
